---- MODULE Spec2Model ----
(***************************************************************************)
(* The indexed range-query and disjoint-set structures of                  *)
(* src/src/data_structures/mod.rs (SumSegmentTree, SegmentTree,            *)
(* FenwickTree, RangeUpdateFenwickTree, UnionFind) and the size-based      *)
(* UnionFind of src/cp.rs, as state machines.                              *)
(*                                                                         *)
(* A Rust Vec of length len is a function with domain 0..len-1.  Every     *)
(* operation is an operator from the structure (a record with the fields   *)
(* of the struct) to a record holding the structure afterwards, the value  *)
(* returned, and whether the call panicked on an index outside a Vec.      *)
(***************************************************************************)
EXTENDS Integers, Sequences, FiniteSets, TLC

VARIABLES
    sst,        \* the SumSegmentTree
    seg,        \* the generic SegmentTree<i64>
    fen,        \* the FenwickTree
    ruf,        \* the RangeUpdateFenwickTree
    uf,         \* the rank-based UnionFind of data_structures/mod.rs
    cpuf,       \* the size-based UnionFind of cp.rs
    ref,        \* the plain reference array the calls are also applied to
    merged,     \* the number of union calls that returned true since new/reset
    last,       \* the last call: its name, arguments and returned value
    graph,      \* the Graph of graph/mod.rs
    panicked    \* TRUE once a call has panicked (the program has aborted)

vars == <<sst, seg, fen, ruf, uf, cpuf, ref, merged, last, graph, panicked>>

\* ------------------------------------------------------------------ bounds

\* Largest size of an array-backed structure (segment trees, Fenwick trees).
MaxN == 3
\* Largest number of elements of a UnionFind driven alone.
MaxElems == 4
\* Largest number of elements of the two UnionFinds driven together.
MaxPairElems == 5
\* Reference-array elements stay within -MaxVal..MaxVal.
MaxVal == 1

Vals == (0 - MaxVal)..MaxVal
Deltas == Vals \ {0}

\* Largest size of a SumSegmentTree; its reference elements stay within
\* 0..MaxSumVal and the deltas added to them within -MaxSumVal..MaxSumVal.
\* How often a scenario may add to one element.
MaxAdds == 1

\* The longest list handed to union_all.
MaxListLen == 3

\* The letters of the words folded by concatenation.
MaxLetter == 2

\* The vertices, the weighted edges and the weights of a Graph.
MaxVertices == 3
MaxEdges == 2
MaxWeight == 1

MaxSumN == 3
MaxSumVal == 1
SumVals == 0..MaxSumVal
SumDeltas == ((0 - MaxSumVal)..MaxSumVal) \ {0}

Vec(len, v) == [i \in 0..(len - 1) |-> v]
\* v.len()
VecLen(v) == Cardinality(DOMAIN v)

\* ------------------------------------------------------------ UnionFind
\* src/src/data_structures/mod.rs, struct UnionFind and impl UnionFind.

UnionFindNew(n) ==
    [parent |-> [i \in 0..(n - 1) |-> i],
     rank |-> Vec(n, 0),
     size |-> Vec(n, 1),
     components |-> n]

\* find without the write to parent[x]: no path is compressed.
RECURSIVE find_without_compression(_, _)
find_without_compression(u, x) ==
    IF x \notin DOMAIN u.parent
    THEN [uf |-> u, root |-> x, panic |-> TRUE]
    ELSE IF u.parent[x] # x
         THEN find_without_compression(u, u.parent[x])
         ELSE [uf |-> u, root |-> u.parent[x], panic |-> FALSE]

\* find(x): recursive root lookup with path compression.  parent[x] panics
\* when x is not an index of parent.
RECURSIVE find(_, _)
find(u, x) ==
    IF x \notin DOMAIN u.parent
    THEN [uf |-> u, root |-> x, panic |-> TRUE]
    ELSE IF u.parent[x] # x
         THEN LET r == find(u, u.parent[x])
              IN  IF r.panic THEN r
                  ELSE [uf |-> [r.uf EXCEPT !.parent[x] = r.root],
                        root |-> r.root, panic |-> FALSE]
         ELSE [uf |-> u, root |-> u.parent[x], panic |-> FALSE]

\* link whose Equal arm leaves rank[root_x] as it is.
link_without_rank_bump(s, root_x, root_y) ==
    IF s.rank[root_x] < s.rank[root_y]
    THEN [s EXCEPT !.parent[root_x] = root_y,
                   !.size[root_y] = @ + s.size[root_x]]
    ELSE [s EXCEPT !.parent[root_y] = root_x,
                   !.size[root_x] = @ + s.size[root_y]]

\* link without the size accumulation of the Less arm.
link_loses_size(s, root_x, root_y) ==
    IF s.rank[root_x] < s.rank[root_y]
    THEN [s EXCEPT !.parent[root_x] = root_y]
    ELSE IF s.rank[root_x] > s.rank[root_y]
    THEN [s EXCEPT !.parent[root_y] = root_x,
                   !.size[root_x] = @ + s.size[root_y]]
    ELSE [s EXCEPT !.parent[root_y] = root_x,
                   !.size[root_x] = @ + s.size[root_y],
                   !.rank[root_x] = @ + 1]

\* link whose Less arm writes parent[root_x] = root_x: nothing is merged.
link_self_parent(s, root_x, root_y) ==
    IF s.rank[root_x] < s.rank[root_y]
    THEN [s EXCEPT !.parent[root_x] = root_x,
                   !.size[root_y] = @ + s.size[root_x]]
    ELSE IF s.rank[root_x] > s.rank[root_y]
    THEN [s EXCEPT !.parent[root_y] = root_x,
                   !.size[root_x] = @ + s.size[root_y]]
    ELSE [s EXCEPT !.parent[root_y] = root_x,
                   !.size[root_x] = @ + s.size[root_y],
                   !.rank[root_x] = @ + 1]

\* The match on rank[root_x].cmp(&rank[root_y]): the root of lower rank is
\* linked under the other; on a tie root_y goes under root_x, whose rank grows.
link(s, root_x, root_y) ==
    IF s.rank[root_x] < s.rank[root_y]
    THEN [s EXCEPT !.parent[root_x] = root_y,
                   !.size[root_y] = @ + s.size[root_x]]
    ELSE IF s.rank[root_x] > s.rank[root_y]
    THEN [s EXCEPT !.parent[root_y] = root_x,
                   !.size[root_x] = @ + s.size[root_y]]
    ELSE [s EXCEPT !.parent[root_y] = root_x,
                   !.size[root_x] = @ + s.size[root_y],
                   !.rank[root_x] = @ + 1]

\* union counting a component down before it knows that the roots differ.
union_early_decrement(u, x, y) ==
    LET fx == find(u, x) IN
    IF fx.panic THEN [uf |-> fx.uf, result |-> FALSE, panic |-> TRUE]
    ELSE
    LET fy == find(fx.uf, y) IN
    IF fy.panic THEN [uf |-> fy.uf, result |-> FALSE, panic |-> TRUE]
    ELSE
    IF fx.root = fy.root
    THEN [uf |-> [fy.uf EXCEPT !.components = @ - 1], result |-> FALSE,
          panic |-> FALSE]
    ELSE [uf |-> [link(fy.uf, fx.root, fy.root) EXCEPT !.components = @ - 1],
          result |-> TRUE, panic |-> FALSE]

\* union comparing its arguments, not their roots.
union_compares_arguments(u, x, y) ==
    LET fx == find(u, x) IN
    IF fx.panic THEN [uf |-> fx.uf, result |-> FALSE, panic |-> TRUE]
    ELSE
    LET fy == find(fx.uf, y) IN
    IF fy.panic THEN [uf |-> fy.uf, result |-> FALSE, panic |-> TRUE]
    ELSE
    IF x = y
    THEN [uf |-> fy.uf, result |-> FALSE, panic |-> FALSE]
    ELSE [uf |-> [link(fy.uf, fx.root, fy.root) EXCEPT !.components = @ - 1],
          result |-> TRUE, panic |-> FALSE]

union(u, x, y) ==
    LET fx == find(u, x) IN
    IF fx.panic THEN [uf |-> fx.uf, result |-> FALSE, panic |-> TRUE]
    ELSE
    LET fy == find(fx.uf, y) IN
    IF fy.panic THEN [uf |-> fy.uf, result |-> FALSE, panic |-> TRUE]
    ELSE
    IF fx.root = fy.root
    THEN [uf |-> fy.uf, result |-> FALSE, panic |-> FALSE]
    ELSE [uf |-> [link(fy.uf, fx.root, fy.root) EXCEPT !.components = @ - 1],
          result |-> TRUE, panic |-> FALSE]

connected(u, x, y) ==
    LET fx == find(u, x) IN
    IF fx.panic THEN [uf |-> fx.uf, result |-> FALSE, panic |-> TRUE]
    ELSE
    LET fy == find(fx.uf, y) IN
    IF fy.panic THEN [uf |-> fy.uf, result |-> FALSE, panic |-> TRUE]
    ELSE [uf |-> fy.uf, result |-> (fx.root = fy.root), panic |-> FALSE]

component_size(u, x) ==
    LET f == find(u, x) IN
    IF f.panic THEN [uf |-> f.uf, result |-> 0, panic |-> TRUE]
    ELSE [uf |-> f.uf, result |-> f.uf.size[f.root], panic |-> FALSE]

component_count(u) == u.components

\* get_components grouping each element under its parent, not under its root.
RECURSIVE get_components_from_by_parent(_, _, _)
get_components_from_by_parent(u, i, groups) ==
    IF i >= VecLen(u.parent) THEN [uf |-> u, groups |-> groups]
    ELSE LET p == u.parent[i]
             g == IF p \in DOMAIN groups
                  THEN [groups EXCEPT ![p] = Append(@, i)]
                  ELSE [r \in DOMAIN groups \cup {p} |->
                           IF r = p THEN <<i>> ELSE groups[r]]
         IN  get_components_from_by_parent(u, i + 1, g)

\* The loop `for i in 0..self.parent.len()` of get_components, from index i
\* on: groups maps each root found so far to the elements pushed under it.
RECURSIVE get_components_from(_, _, _)
get_components_from(u, i, groups) ==
    IF i >= VecLen(u.parent) THEN [uf |-> u, groups |-> groups]
    ELSE LET f == find(u, i)
             g == IF f.root \in DOMAIN groups
                  THEN [groups EXCEPT ![f.root] = Append(@, i)]
                  ELSE [r \in DOMAIN groups \cup {f.root} |->
                           IF r = f.root THEN <<i>> ELSE groups[r]]
         IN  get_components_from(f.uf, i + 1, g)

\* The Vec<Vec<usize>> is collected from a HashMap, whose iteration order is
\* unspecified: the groups are modelled as the set of the group vectors.
get_components(u) ==
    LET g == get_components_from(u, 0, <<>>)
    IN  [uf |-> g.uf, result |-> {g.groups[r] : r \in DOMAIN g.groups},
         panic |-> FALSE]

RECURSIVE max_component_size_from(_, _, _)
max_component_size_from(u, i, max_size) ==
    IF i >= VecLen(u.parent) THEN [uf |-> u, result |-> max_size, panic |-> FALSE]
    ELSE LET f == find(u, i)
             sz == f.uf.size[f.root]
         IN  max_component_size_from(f.uf, i + 1,
                                     IF sz > max_size THEN sz ELSE max_size)

max_component_size(u) == max_component_size_from(u, 0, 0)

RECURSIVE get_representatives_from(_, _, _)
get_representatives_from(u, i, representatives) ==
    IF i >= VecLen(u.parent)
    THEN [uf |-> u, result |-> representatives, panic |-> FALSE]
    ELSE LET f == find(u, i)
         IN  get_representatives_from(f.uf, i + 1, representatives \cup {f.root})

get_representatives(u) == get_representatives_from(u, 0, {})

is_fully_connected(u) == u.components = 1

\* reset leaving the ranks as they are.
reset_keeps_rank(u) == [UnionFindNew(VecLen(u.parent)) EXCEPT !.rank = u.rank]

reset(u) == UnionFindNew(VecLen(u.parent))

\* The loop `for i in 1..elements.len()` of union_all (elements is 1-indexed
\* here: elements[1] is the Rust elements[0]).
RECURSIVE union_all_from(_, _, _, _)
union_all_from(u, elements, i, changed) ==
    IF i > Len(elements) THEN [uf |-> u, result |-> changed, panic |-> FALSE]
    ELSE LET r == union(u, elements[1], elements[i])
         IN  IF r.panic THEN [uf |-> r.uf, result |-> changed, panic |-> TRUE]
             ELSE union_all_from(r.uf, elements, i + 1, changed \/ r.result)

\* union_all whose loop starts one element late.
union_all_skips_second(u, elements) ==
    IF Len(elements) < 2 THEN [uf |-> u, result |-> FALSE, panic |-> FALSE]
    ELSE union_all_from(u, elements, 3, FALSE)

union_all(u, elements) ==
    IF Len(elements) < 2 THEN [uf |-> u, result |-> FALSE, panic |-> FALSE]
    ELSE union_all_from(u, elements, 2, FALSE)

\* ---------------------------------------------- cp.rs: size-based UnionFind
\* src/cp.rs, cp_template::ds::UnionFind.

CpUnionFindNew(n) ==
    [parent |-> [i \in 0..(n - 1) |-> i],
     size |-> Vec(n, 1),
     components |-> n]

RECURSIVE cp_find(_, _)
cp_find(u, x) ==
    IF x \notin DOMAIN u.parent
    THEN [uf |-> u, root |-> x, panic |-> TRUE]
    ELSE IF u.parent[x] # x
         THEN LET r == cp_find(u, u.parent[x])
              IN  IF r.panic THEN r
                  ELSE [uf |-> [r.uf EXCEPT !.parent[x] = r.root],
                        root |-> r.root, panic |-> FALSE]
         ELSE [uf |-> u, root |-> u.parent[x], panic |-> FALSE]

\* cp.rs union with the size comparison reversed.
cp_link_reversed(s, root_x, root_y) ==
    IF s.size[root_x] > s.size[root_y]
    THEN [s EXCEPT !.parent[root_x] = root_y,
                   !.size[root_y] = @ + s.size[root_x]]
    ELSE [s EXCEPT !.parent[root_y] = root_x,
                   !.size[root_x] = @ + s.size[root_y]]

\* cp.rs union re-parenting without adding the absorbed size.
cp_link_forgets_size(s, root_x, root_y) ==
    IF s.size[root_x] < s.size[root_y]
    THEN [s EXCEPT !.parent[root_x] = root_y]
    ELSE [s EXCEPT !.parent[root_y] = root_x]

\* if size[root_x] < size[root_y] { x under y } else { y under x }
cp_link(s, root_x, root_y) ==
    IF s.size[root_x] < s.size[root_y]
    THEN [s EXCEPT !.parent[root_x] = root_y,
                   !.size[root_y] = @ + s.size[root_x]]
    ELSE [s EXCEPT !.parent[root_y] = root_x,
                   !.size[root_x] = @ + s.size[root_y]]

cp_union(u, x, y) ==
    LET fx == cp_find(u, x) IN
    IF fx.panic THEN [uf |-> fx.uf, result |-> FALSE, panic |-> TRUE]
    ELSE
    LET fy == cp_find(fx.uf, y) IN
    IF fy.panic THEN [uf |-> fy.uf, result |-> FALSE, panic |-> TRUE]
    ELSE
    IF fx.root = fy.root
    THEN [uf |-> fy.uf, result |-> FALSE, panic |-> FALSE]
    ELSE [uf |-> [cp_link(fy.uf, fx.root, fy.root) EXCEPT !.components = @ - 1],
          result |-> TRUE, panic |-> FALSE]

cp_component_count(u) == u.components

cp_component_size(u, x) ==
    LET f == cp_find(u, x) IN
    IF f.panic THEN [uf |-> f.uf, result |-> 0, panic |-> TRUE]
    ELSE [uf |-> f.uf, result |-> f.uf.size[f.root], panic |-> FALSE]

\* ------------------------------------------------------- SumSegmentTree
\* src/src/data_structures/mod.rs, struct SumSegmentTree: node k of the
\* heap-indexed tree has children 2k and 2k+1; lazy holds pending deltas.

SumSegmentTreeNew(size) ==
    [tree |-> Vec(4 * size, 0), lazy |-> Vec(4 * size, 0), original_size |-> size]

\* build writing the leaves alone: no inner node is summed.
RECURSIVE sum_build_leaves_only(_, _, _, _, _)
sum_build_leaves_only(t, arr, node, start, end) ==
    IF start = end
    THEN [t EXCEPT !.tree[node] = arr[start]]
    ELSE LET mid == (start + end) \div 2
             t1 == sum_build_leaves_only(t, arr, 2 * node, start, mid)
         IN  sum_build_leaves_only(t1, arr, 2 * node + 1, mid + 1, end)

RECURSIVE sum_build(_, _, _, _, _)
sum_build(t, arr, node, start, end) ==
    IF start = end
    THEN [t EXCEPT !.tree[node] = arr[start]]
    ELSE LET mid == (start + end) \div 2
             t1 == sum_build(t, arr, 2 * node, start, mid)
             t2 == sum_build(t1, arr, 2 * node + 1, mid + 1, end)
         IN  [t2 EXCEPT !.tree[node] = t2.tree[2 * node] + t2.tree[2 * node + 1]]

sum_from_array(arr) ==
    LET t == SumSegmentTreeNew(VecLen(arr))
    IN  IF VecLen(arr) # 0 THEN sum_build(t, arr, 1, 0, VecLen(arr) - 1) ELSE t

\* push with the pending delta added once, not once per element of the range.
push_unscaled(t, node, start, end) ==
    IF t.lazy[node] # 0
    THEN LET t1 == [t EXCEPT !.tree[node] = @ + t.lazy[node]]
             t2 == IF start # end
                   THEN [t1 EXCEPT !.lazy[2 * node] = @ + t.lazy[node],
                                   !.lazy[2 * node + 1] = @ + t.lazy[node]]
                   ELSE t1
         IN  [t2 EXCEPT !.lazy[node] = 0]
    ELSE t

\* push leaving lazy[node] as it is.
push_keeps_lazy(t, node, start, end) ==
    IF t.lazy[node] # 0
    THEN LET range_size == end - start + 1
             t1 == [t EXCEPT !.tree[node] = @ + t.lazy[node] * range_size]
         IN  IF start # end
             THEN [t1 EXCEPT !.lazy[2 * node] = @ + t.lazy[node],
                             !.lazy[2 * node + 1] = @ + t.lazy[node]]
             ELSE t1
    ELSE t

push(t, node, start, end) ==
    IF t.lazy[node] # 0
    THEN LET range_size == end - start + 1
             t1 == [t EXCEPT !.tree[node] = @ + t.lazy[node] * range_size]
             t2 == IF start # end
                   THEN [t1 EXCEPT !.lazy[2 * node] = @ + t.lazy[node],
                                   !.lazy[2 * node + 1] = @ + t.lazy[node]]
                   ELSE t1
         IN  [t2 EXCEPT !.lazy[node] = 0]
    ELSE t

RECURSIVE update_range_helper(_, _, _, _, _, _, _)
update_range_helper(t, node, start, end, l, r, val) ==
    LET t0 == push(t, node, start, end) IN
    IF start > r \/ end < l THEN t0
    ELSE IF start >= l /\ end <= r
    THEN push([t0 EXCEPT !.lazy[node] = @ + val], node, start, end)
    ELSE LET mid == (start + end) \div 2
             t1 == update_range_helper(t0, 2 * node, start, mid, l, r, val)
             t2 == update_range_helper(t1, 2 * node + 1, mid + 1, end, l, r, val)
             t3 == push(t2, 2 * node, start, mid)
             t4 == push(t3, 2 * node + 1, mid + 1, end)
         IN  [t4 EXCEPT !.tree[node] = t4.tree[2 * node] + t4.tree[2 * node + 1]]

\* update_range testing l alone against original_size.
sum_update_range_checks_l_only(t, l, r, val) ==
    IF l < t.original_size
    THEN update_range_helper(t, 1, 0, t.original_size - 1, l, r, val)
    ELSE t

sum_update_range(t, l, r, val) ==
    IF l < t.original_size /\ r < t.original_size
    THEN update_range_helper(t, 1, 0, t.original_size - 1, l, r, val)
    ELSE t

\* update_point_helper adding val at the leaf, not storing it.
RECURSIVE sum_update_point_helper_adds(_, _, _, _, _, _)
sum_update_point_helper_adds(t, node, start, end, idx, val) ==
    LET t0 == push(t, node, start, end) IN
    IF start = end
    THEN [t0 EXCEPT !.tree[node] = @ + val]
    ELSE LET mid == (start + end) \div 2
             t1 == IF idx <= mid
                   THEN sum_update_point_helper_adds(t0, 2 * node, start, mid, idx, val)
                   ELSE sum_update_point_helper_adds(t0, 2 * node + 1, mid + 1, end,
                                                     idx, val)
             t2 == push(t1, 2 * node, start, mid)
             t3 == push(t2, 2 * node + 1, mid + 1, end)
         IN  [t3 EXCEPT !.tree[node] = t3.tree[2 * node] + t3.tree[2 * node + 1]]

RECURSIVE sum_update_point_helper(_, _, _, _, _, _)
sum_update_point_helper(t, node, start, end, idx, val) ==
    LET t0 == push(t, node, start, end) IN
    IF start = end
    THEN [t0 EXCEPT !.tree[node] = val]
    ELSE LET mid == (start + end) \div 2
             t1 == IF idx <= mid
                   THEN sum_update_point_helper(t0, 2 * node, start, mid, idx, val)
                   ELSE sum_update_point_helper(t0, 2 * node + 1, mid + 1, end, idx, val)
             t2 == push(t1, 2 * node, start, mid)
             t3 == push(t2, 2 * node + 1, mid + 1, end)
         IN  [t3 EXCEPT !.tree[node] = t3.tree[2 * node] + t3.tree[2 * node + 1]]

sum_update_point(t, idx, val) ==
    IF idx < t.original_size
    THEN sum_update_point_helper(t, 1, 0, t.original_size - 1, idx, val)
    ELSE t

\* query takes &mut self: it returns the sum and the tree after its pushes.
\* query_helper reading tree[node] before the push.
RECURSIVE sum_query_helper_reads_before_push(_, _, _, _, _, _)
sum_query_helper_reads_before_push(t, node, start, end, l, r) ==
    IF start > r \/ end < l THEN [t |-> t, result |-> 0]
    ELSE LET t0 == push(t, node, start, end) IN
         IF start >= l /\ end <= r THEN [t |-> t0, result |-> t.tree[node]]
         ELSE LET mid == (start + end) \div 2
                  left_query == sum_query_helper_reads_before_push(
                                    t0, 2 * node, start, mid, l, r)
                  right_query == sum_query_helper_reads_before_push(
                                     left_query.t, 2 * node + 1, mid + 1, end, l, r)
              IN  [t |-> right_query.t,
                   result |-> left_query.result + right_query.result]

RECURSIVE sum_query_helper(_, _, _, _, _, _)
sum_query_helper(t, node, start, end, l, r) ==
    IF start > r \/ end < l THEN [t |-> t, result |-> 0]
    ELSE LET t0 == push(t, node, start, end) IN
         IF start >= l /\ end <= r THEN [t |-> t0, result |-> t0.tree[node]]
         ELSE LET mid == (start + end) \div 2
                  left_query == sum_query_helper(t0, 2 * node, start, mid, l, r)
                  right_query == sum_query_helper(left_query.t, 2 * node + 1,
                                                  mid + 1, end, l, r)
              IN  [t |-> right_query.t,
                   result |-> left_query.result + right_query.result]

\* query testing l alone against original_size.
sum_query_checks_l_only(t, l, r) ==
    IF l < t.original_size
    THEN sum_query_helper(t, 1, 0, t.original_size - 1, l, r)
    ELSE [t |-> t, result |-> 0]

sum_query(t, l, r) ==
    IF l < t.original_size /\ r < t.original_size
    THEN sum_query_helper(t, 1, 0, t.original_size - 1, l, r)
    ELSE [t |-> t, result |-> 0]

\* ------------------------------------------------------ SegmentTree<i64>
\* src/src/data_structures/mod.rs, struct SegmentTree<T>, with the two
\* operations its convenience constructors supply.

\* i64::MAX and i64::MIN, the identities of min and max, scaled to the
\* integers of the model checker; only compared, never added to.
i64_MAX == 2147483647
i64_MIN == -2147483647

\* (self.op)(a, b) for op = |a, b| a.min(b) and |a, b| a.max(b)
Apply(op, a, b) ==
    IF op = "concat" THEN a \o b
    ELSE IF op = "min" THEN (IF a <= b THEN a ELSE b)
    ELSE (IF a >= b THEN a ELSE b)

SegmentTreeNew(size, identity, op) ==
    [tree |-> Vec(4 * size, identity), original_size |-> size,
     identity |-> identity, op |-> op]

RECURSIVE seg_build(_, _, _, _, _)
seg_build(t, arr, node, start, end) ==
    IF start = end
    THEN [t EXCEPT !.tree[node] = arr[start]]
    ELSE LET mid == (start + end) \div 2
             t1 == seg_build(t, arr, 2 * node, start, mid)
             t2 == seg_build(t1, arr, 2 * node + 1, mid + 1, end)
         IN  [t2 EXCEPT !.tree[node] =
                  Apply(t.op, t2.tree[2 * node], t2.tree[2 * node + 1])]

seg_from_array(arr, identity, op) ==
    LET t == SegmentTreeNew(VecLen(arr), identity, op)
    IN  IF VecLen(arr) # 0 THEN seg_build(t, arr, 1, 0, VecLen(arr) - 1) ELSE t

min_from_array(arr) == seg_from_array(arr, i64_MAX, "min")
max_from_array(arr) == seg_from_array(arr, i64_MIN, "max")

\* update_point_helper descending left on idx < mid, not idx <= mid.
RECURSIVE seg_update_point_helper_strict(_, _, _, _, _, _)
seg_update_point_helper_strict(t, node, start, end, idx, val) ==
    IF start = end
    THEN [t EXCEPT !.tree[node] = val]
    ELSE LET mid == (start + end) \div 2
             t1 == IF idx < mid
                   THEN seg_update_point_helper_strict(t, 2 * node, start, mid, idx, val)
                   ELSE seg_update_point_helper_strict(t, 2 * node + 1, mid + 1, end,
                                                       idx, val)
         IN  [t1 EXCEPT !.tree[node] =
                  Apply(t.op, t1.tree[2 * node], t1.tree[2 * node + 1])]

RECURSIVE seg_update_point_helper(_, _, _, _, _, _)
seg_update_point_helper(t, node, start, end, idx, val) ==
    IF start = end
    THEN [t EXCEPT !.tree[node] = val]
    ELSE LET mid == (start + end) \div 2
             t1 == IF idx <= mid
                   THEN seg_update_point_helper(t, 2 * node, start, mid, idx, val)
                   ELSE seg_update_point_helper(t, 2 * node + 1, mid + 1, end, idx, val)
         IN  [t1 EXCEPT !.tree[node] =
                  Apply(t.op, t1.tree[2 * node], t1.tree[2 * node + 1])]

seg_update_point(t, idx, val) ==
    IF idx < t.original_size
    THEN seg_update_point_helper(t, 1, 0, t.original_size - 1, idx, val)
    ELSE t

\* query_helper handing the right part to op before the left part.
RECURSIVE seg_query_helper_swapped(_, _, _, _, _, _)
seg_query_helper_swapped(t, node, start, end, l, r) ==
    IF start > r \/ end < l THEN t.identity
    ELSE IF start >= l /\ end <= r THEN t.tree[node]
    ELSE LET mid == (start + end) \div 2
             left_query == seg_query_helper_swapped(t, 2 * node, start, mid, l, r)
             right_query == seg_query_helper_swapped(t, 2 * node + 1, mid + 1, end, l, r)
         IN  Apply(t.op, right_query, left_query)

RECURSIVE seg_query_helper(_, _, _, _, _, _)
seg_query_helper(t, node, start, end, l, r) ==
    IF start > r \/ end < l THEN t.identity
    ELSE IF start >= l /\ end <= r THEN t.tree[node]
    ELSE LET mid == (start + end) \div 2
             left_query == seg_query_helper(t, 2 * node, start, mid, l, r)
             right_query == seg_query_helper(t, 2 * node + 1, mid + 1, end, l, r)
         IN  Apply(t.op, left_query, right_query)

seg_query(t, l, r) ==
    IF l < t.original_size /\ r < t.original_size
    THEN seg_query_helper(t, 1, 0, t.original_size - 1, l, r)
    ELSE t.identity

\* ---------------------------------------------------------- FenwickTree
\* src/src/data_structures/mod.rs, struct FenwickTree: tree has n + 1 slots
\* and is 1-indexed internally.

\* The width of the machine words of the model (usize is scaled down; the
\* lowest set bit of idx does not depend on the width).
WordBits == 12

RECURSIVE Pow2(_)
Pow2(k) == IF k = 0 THEN 1 ELSE 2 * Pow2(k - 1)

\* !idx on a WordBits-wide word
BitNot(a) == Pow2(WordBits) - 1 - a

RECURSIVE BitAnd(_, _)
BitAnd(a, b) ==
    IF a = 0 \/ b = 0 THEN 0
    ELSE (a % 2) * (b % 2) + 2 * BitAnd(a \div 2, b \div 2)

\* idx & (!idx + 1), the wrapping sum as the release build computes it
lsb(idx) == BitAnd(idx, (BitNot(idx) + 1) % Pow2(WordBits))

FenwickTreeNew(size) == [tree |-> Vec(size + 1, 0), n |-> size]

\* update's loop running while idx < self.n, not while idx <= self.n.
RECURSIVE fen_update_loop_stops_early(_, _, _)
fen_update_loop_stops_early(f, idx, delta) ==
    IF idx < f.n
    THEN fen_update_loop_stops_early([f EXCEPT !.tree[idx] = @ + delta],
                                     idx + lsb(idx), delta)
    ELSE f

\* update's loop stepping to idx + 1, not to idx + lsb(idx).
RECURSIVE fen_update_loop_every_slot(_, _, _)
fen_update_loop_every_slot(f, idx, delta) ==
    IF idx <= f.n
    THEN fen_update_loop_every_slot([f EXCEPT !.tree[idx] = @ + delta], idx + 1, delta)
    ELSE f

\* the loop `while idx <= self.n` of update, idx already 1-indexed
RECURSIVE fen_update_loop(_, _, _)
fen_update_loop(f, idx, delta) ==
    IF idx <= f.n
    THEN fen_update_loop([f EXCEPT !.tree[idx] = @ + delta], idx + lsb(idx), delta)
    ELSE f

fen_update(f, idx, delta) == fen_update_loop(f, idx + 1, delta)

\* the loop `for (i, &val) in arr.iter().enumerate()` of from_array, from i on
RECURSIVE fen_from_array_loop(_, _, _)
fen_from_array_loop(f, arr, i) ==
    IF i >= VecLen(arr) THEN f
    ELSE fen_from_array_loop(fen_update(f, i, arr[i]), arr, i + 1)

fen_from_array(arr) == fen_from_array_loop(FenwickTreeNew(VecLen(arr)), arr, 0)

\* the loop `while idx > 0` of prefix_sum; self.tree[idx] panics past the end
RECURSIVE fen_prefix_loop(_, _, _)
fen_prefix_loop(f, idx, sum) ==
    IF idx > 0
    THEN IF idx \notin DOMAIN f.tree
         THEN [result |-> sum, panic |-> TRUE]
         ELSE fen_prefix_loop(f, idx - lsb(idx), sum + f.tree[idx])
    ELSE [result |-> sum, panic |-> FALSE]

prefix_sum(f, idx) == fen_prefix_loop(f, idx + 1, 0)

\* range_sum subtracting prefix_sum(l), not prefix_sum(l - 1).
range_sum_off_by_one(f, l, r) ==
    LET pr == prefix_sum(f, r) IN
    IF l = 0 \/ pr.panic THEN pr
    ELSE LET pl == prefix_sum(f, l)
         IN  [result |-> pr.result - pl.result, panic |-> pl.panic]

range_sum(f, l, r) ==
    LET pr == prefix_sum(f, r) IN
    IF l = 0 \/ pr.panic THEN pr
    ELSE LET pl == prefix_sum(f, l - 1)
         IN  [result |-> pr.result - pl.result, panic |-> pl.panic]

\* set applying val itself as the differential update.
fen_set_adds(f, idx, val) ==
    LET current == IF idx = 0 THEN prefix_sum(f, 0)
                   ELSE LET a == prefix_sum(f, idx) IN
                        IF a.panic THEN a
                        ELSE LET b == prefix_sum(f, idx - 1)
                             IN  [result |-> a.result - b.result, panic |-> b.panic]
    IN  IF current.panic THEN [f |-> f, panic |-> TRUE]
        ELSE [f |-> fen_update(f, idx, val), panic |-> FALSE]

fen_set(f, idx, val) ==
    LET current == IF idx = 0 THEN prefix_sum(f, 0)
                   ELSE LET a == prefix_sum(f, idx) IN
                        IF a.panic THEN a
                        ELSE LET b == prefix_sum(f, idx - 1)
                             IN  [result |-> a.result - b.result, panic |-> b.panic]
    IN  IF current.panic THEN [f |-> f, panic |-> TRUE]
        ELSE [f |-> fen_update(f, idx, val - current.result), panic |-> FALSE]

\* ----------------------------------------------- RangeUpdateFenwickTree
\* src/src/data_structures/mod.rs, struct RangeUpdateFenwickTree: a
\* FenwickTree over the difference array.

RangeUpdateFenwickTreeNew(size) == [tree |-> FenwickTreeNew(size)]

\* update_range closing the range at r, not at r + 1.
ruf_update_range_closes_at_r(f, l, r, delta) ==
    LET t1 == fen_update(f.tree, l, delta)
    IN  [tree |-> IF r + 1 < t1.n THEN fen_update(t1, r, 0 - delta) ELSE t1]

ruf_update_range(f, l, r, delta) ==
    LET t1 == fen_update(f.tree, l, delta)
    IN  [tree |-> IF r + 1 < t1.n THEN fen_update(t1, r + 1, 0 - delta) ELSE t1]

RECURSIVE ruf_from_array_loop(_, _, _)
ruf_from_array_loop(f, arr, i) ==
    IF i >= VecLen(arr) THEN f
    ELSE ruf_from_array_loop(ruf_update_range(f, i, i, arr[i]), arr, i + 1)

ruf_from_array(arr) ==
    ruf_from_array_loop(RangeUpdateFenwickTreeNew(VecLen(arr)), arr, 0)

ruf_query(f, idx) == prefix_sum(f.tree, idx)

\* ----------------------------------------------------------------- Graph
\* src/src/graph/mod.rs, struct Graph: n vertices, the adjacency lists of the
\* unweighted and of the weighted edges, and whether the graph is directed.

GraphNew(n, directed) ==
    [n |-> n, adj |-> Vec(n, <<>>), weighted_adj |-> Vec(n, <<>>),
     directed |-> directed]

add_weighted_edge(g, u, v, weight) ==
    LET g1 == [g EXCEPT !.weighted_adj[u] = Append(@, <<v, weight>>)]
    IN  IF ~g.directed /\ u # v
        THEN [g1 EXCEPT !.weighted_adj[v] = Append(@, <<u, weight>>)]
        ELSE g1

\* i64::saturating_add
saturating_add(a, b) ==
    IF a + b > i64_MAX THEN i64_MAX
    ELSE IF a + b < i64_MIN THEN i64_MIN
    ELSE a + b

\* BinaryHeap<Reverse<(i64, usize)>>::pop: the least (dist, u) pair.
HeapMin(heap) ==
    CHOOSE e \in heap :
        \A f \in heap : e[1] < f[1] \/ (e[1] = f[1] /\ e[2] <= f[2])

\* The loop `for &(v, weight) in &self.weighted_adj[u]` of dijkstra, from the
\* k-th neighbour on.
RECURSIVE dijkstra_relax(_, _, _, _)
dijkstra_relax(g, u, k, st) ==
    IF k > Len(g.weighted_adj[u]) THEN st
    ELSE LET v == g.weighted_adj[u][k][1]
             weight == g.weighted_adj[u][k][2]
             new_dist == saturating_add(st.distances[u], weight)
         IN  IF new_dist < st.distances[v]
             THEN dijkstra_relax(g, u, k + 1,
                      [distances |-> [st.distances EXCEPT ![v] = new_dist],
                       heap |-> st.heap \cup {<<new_dist, v>>}])
             ELSE dijkstra_relax(g, u, k + 1, st)

\* The loop `while let Some(Reverse((dist, u))) = heap.pop()` of dijkstra.
RECURSIVE dijkstra_loop(_, _)
dijkstra_loop(g, st) ==
    IF st.heap = {} THEN st.distances
    ELSE LET top == HeapMin(st.heap)
             popped == [st EXCEPT !.heap = @ \ {top}]
         IN  IF top[1] > st.distances[top[2]]
             THEN dijkstra_loop(g, popped)
             ELSE dijkstra_loop(g, dijkstra_relax(g, top[2], 1, popped))

dijkstra(g, start) ==
    dijkstra_loop(g, [distances |-> [Vec(g.n, i64_MAX) EXCEPT ![start] = 0],
                      heap |-> {<<0, start>>}])

\* ================================================================ actions

\* The record of a call: its name, its arguments and the value it returned.
Call(op, args, result) == [op |-> op, args |-> args, result |-> result]

\* The reference array after adding delta to every element of [l, r].
RefAdd(a, l, r, delta) ==
    [i \in DOMAIN a |-> IF l <= i /\ i <= r THEN a[i] + delta ELSE a[i]]

\* The reference array after setting element idx to val.
RefSet(a, idx, val) == [i \in DOMAIN a |-> IF i = idx THEN val ELSE a[i]]

\* update_range on a SumSegmentTree of the reference's size: a range with an
\* end outside the array changes nothing.
SumRefAdd(a, l, r, delta) ==
    IF l \in DOMAIN a /\ r \in DOMAIN a THEN RefAdd(a, l, r, delta) ELSE a

\* Calls are drawn so that the reference elements stay within Vals.
InVals(a) == \A i \in DOMAIN a : a[i] \in Vals

\* ------------------------------------------------ SumSegmentTree actions
\* The sums query returns are read off the tree by the claims; the action
\* keeps the pushes query makes.

SumUpdateRange(l, r, val) ==
    /\ ~panicked
    /\ \A i \in DOMAIN ref : SumRefAdd(ref, l, r, val)[i] \in SumVals
    /\ sst' = sum_update_range(sst, l, r, val)
    /\ ref' = SumRefAdd(ref, l, r, val)
    /\ last' = Call("update_range", <<>>, 0)
    /\ UNCHANGED <<seg, fen, ruf, uf, cpuf, merged, panicked, graph>>

SumUpdatePoint(idx, val) ==
    /\ ~panicked
    /\ sst' = sum_update_point(sst, idx, val)
    /\ ref' = RefSet(ref, idx, val)
    /\ last' = Call("update_point", <<>>, 0)
    /\ UNCHANGED <<seg, fen, ruf, uf, cpuf, merged, panicked, graph>>

SumQuery(l, r) ==
    /\ ~panicked
    /\ sst' = sum_query(sst, l, r).t
    /\ last' = Call("query", <<>>, 0)
    /\ UNCHANGED <<seg, fen, ruf, uf, cpuf, ref, merged, panicked, graph>>

\* --------------------------------------------------- SegmentTree actions

SegUpdatePoint(idx, val) ==
    /\ ~panicked
    /\ seg' = seg_update_point(seg, idx, val)
    /\ ref' = RefSet(ref, idx, val)
    /\ last' = Call("update_point", <<idx, val>>, 0)
    /\ UNCHANGED <<sst, fen, ruf, uf, cpuf, merged, panicked, graph>>

SegQuery(l, r) ==
    /\ ~panicked
    /\ last' = Call("query", <<l, r>>, seg_query(seg, l, r))
    /\ UNCHANGED <<sst, seg, fen, ruf, uf, cpuf, ref, merged, panicked, graph>>

\* --------------------------------------------------- FenwickTree actions

FenUpdate(idx, delta) ==
    /\ ~panicked
    /\ InVals(RefAdd(ref, idx, idx, delta))
    /\ fen' = fen_update(fen, idx, delta)
    /\ ref' = RefAdd(ref, idx, idx, delta)
    /\ last' = Call("update", <<idx, delta>>, 0)
    /\ UNCHANGED <<sst, seg, ruf, uf, cpuf, merged, panicked, graph>>

FenSet(idx, val) ==
    LET r == fen_set(fen, idx, val)
    IN  /\ ~panicked
        /\ fen' = r.f
        /\ ref' = RefSet(ref, idx, val)
        /\ last' = Call("set", <<idx, val>>, 0)
        /\ panicked' = r.panic
        /\ UNCHANGED <<sst, seg, ruf, uf, cpuf, merged, graph>>

FenPrefixSum(idx) ==
    LET r == prefix_sum(fen, idx)
    IN  /\ ~panicked
        /\ last' = Call("prefix_sum", <<idx>>, r.result)
        /\ panicked' = r.panic
        /\ UNCHANGED <<sst, seg, fen, ruf, uf, cpuf, ref, merged, graph>>

FenRangeSum(l, r) ==
    LET q == range_sum(fen, l, r)
    IN  /\ ~panicked
        /\ last' = Call("range_sum", <<l, r>>, q.result)
        /\ panicked' = q.panic
        /\ UNCHANGED <<sst, seg, fen, ruf, uf, cpuf, ref, merged, graph>>

\* ---------------------------------------- RangeUpdateFenwickTree actions

RufUpdateRange(l, r, delta) ==
    /\ ~panicked
    /\ InVals(RefAdd(ref, l, r, delta))
    /\ ruf' = ruf_update_range(ruf, l, r, delta)
    /\ ref' = RefAdd(ref, l, r, delta)
    /\ last' = Call("update_range", <<l, r, delta>>, 0)
    /\ UNCHANGED <<sst, seg, fen, uf, cpuf, merged, panicked, graph>>

RufQuery(idx) ==
    LET q == ruf_query(ruf, idx)
    IN  /\ ~panicked
        /\ last' = Call("query", <<idx>>, q.result)
        /\ panicked' = q.panic
        /\ UNCHANGED <<sst, seg, fen, ruf, uf, cpuf, ref, merged, graph>>

\* ----------------------------------------------------- UnionFind actions

\* A call on the rank-based UnionFind that returns r.
UFStep(op, args, r) ==
    /\ ~panicked
    /\ uf' = r.uf
    /\ last' = Call(op, args, r.result)
    /\ panicked' = r.panic
    /\ UNCHANGED <<sst, seg, fen, ruf, cpuf, ref, graph>>

Union(x, y) ==
    LET r == union(uf, x, y)
    IN  /\ UFStep("union", <<x, y>>, r)
        /\ merged' = IF r.result THEN merged + 1 ELSE merged

Find(x) ==
    LET f == find(uf, x)
    IN  /\ UFStep("find", <<x>>, [uf |-> f.uf, result |-> f.root, panic |-> f.panic])
        /\ UNCHANGED merged

Connected(x, y) ==
    UFStep("connected", <<x, y>>, connected(uf, x, y)) /\ UNCHANGED merged

ComponentSize(x) ==
    UFStep("component_size", <<x>>, component_size(uf, x)) /\ UNCHANGED merged

ComponentCount ==
    /\ UFStep("component_count", <<>>,
              [uf |-> uf, result |-> component_count(uf), panic |-> FALSE])
    /\ UNCHANGED merged

GetComponents ==
    UFStep("get_components", <<>>, get_components(uf)) /\ UNCHANGED merged

GetRepresentatives ==
    UFStep("get_representatives", <<>>, get_representatives(uf)) /\ UNCHANGED merged

MaxComponentSize ==
    UFStep("max_component_size", <<>>, max_component_size(uf)) /\ UNCHANGED merged

IsFullyConnected ==
    /\ UFStep("is_fully_connected", <<>>,
              [uf |-> uf, result |-> is_fully_connected(uf), panic |-> FALSE])
    /\ UNCHANGED merged

Reset ==
    /\ UFStep("reset", <<>>, [uf |-> reset(uf), result |-> 0, panic |-> FALSE])
    /\ merged' = 0

\* union_all(elements): every successful pairwise union is counted.
UnionAll(elements) ==
    LET r == union_all(uf, elements)
    IN  /\ UFStep("union_all", <<>>, r)
        /\ merged' = merged + (uf.components - r.uf.components)

\* ----------------------------------------------------------- Graph actions

\* The number of entries in the weighted adjacency lists.
RECURSIVE Slots(_, _)
Slots(g, u) == IF u >= g.n THEN 0 ELSE Len(g.weighted_adj[u]) + Slots(g, u + 1)

AddWeightedEdge(u, v, weight) ==
    /\ Slots(graph, 0) < (IF graph.directed THEN MaxEdges ELSE 2 * MaxEdges - 1)
    /\ graph' = add_weighted_edge(graph, u, v, weight)
    /\ last' = Call("add_weighted_edge", <<u, v, weight>>, 0)
    /\ UNCHANGED <<sst, seg, fen, ruf, uf, cpuf, ref, merged, panicked>>

Dijkstra(start) ==
    /\ last' = Call("dijkstra", <<start>>, dijkstra(graph, start))
    /\ UNCHANGED <<sst, seg, fen, ruf, uf, cpuf, ref, merged, graph, panicked>>

\* ------------------------------ the two UnionFinds driven by the same calls

\* union(x, y) called on both structures.
PairUnion(x, y) ==
    LET r == union(uf, x, y)
        c == cp_union(cpuf, x, y)
    IN  /\ ~panicked
        /\ uf' = r.uf
        /\ cpuf' = c.uf
        /\ last' = [op |-> "union", args |-> <<x, y>>, result |-> r.result,
                    cp_result |-> c.result]
        /\ panicked' = (r.panic \/ c.panic)
        /\ merged' = IF r.result THEN merged + 1 ELSE merged
        /\ UNCHANGED <<sst, seg, fen, ruf, ref, graph>>

\* find(x) called on both structures.
PairFind(x) ==
    LET r == find(uf, x)
        c == cp_find(cpuf, x)
    IN  /\ ~panicked
        /\ uf' = r.uf
        /\ cpuf' = c.uf
        /\ last' = [op |-> "find", args |-> <<>>, result |-> r.root,
                    cp_result |-> c.root]
        /\ panicked' = (r.panic \/ c.panic)
        /\ UNCHANGED <<sst, seg, fen, ruf, ref, merged, graph>>

\* ========================================================= specifications

\* The structures a specification does not exercise are empty.
NoSum == sst = SumSegmentTreeNew(0)
NoSeg == seg = SegmentTreeNew(0, i64_MAX, "min")
NoFen == fen = FenwickTreeNew(0)
NoRuf == ruf = RangeUpdateFenwickTreeNew(0)
NoUF == uf = UnionFindNew(0) /\ cpuf = CpUnionFindNew(0)

NoGraph == graph = GraphNew(0, FALSE)

Start == merged = 0 /\ last = Call("new", <<>>, 0) /\ panicked = FALSE /\ NoGraph

\* The arrays of length n with elements in Vals.
Arrays(n) == [0..(n - 1) -> Vals]

\* The indices of the reference array, and its ranges lo <= hi.
Idx == DOMAIN ref
Ranges == {p \in Idx \X Idx : p[1] <= p[2]}
Elems == DOMAIN uf.parent

\* SumSegmentTree::from_array(A), then calls with in-range arguments.
InitSum ==
    /\ \E n \in 1..MaxSumN : \E arr \in [0..(n - 1) -> SumVals] :
           sst = sum_from_array(arr) /\ ref = arr
    /\ NoSeg /\ NoFen /\ NoRuf /\ NoUF /\ Start

NextSum ==
    \/ \E p \in Ranges : \E val \in SumDeltas : SumUpdateRange(p[1], p[2], val)
    \/ \E idx \in Idx : \E val \in SumVals : SumUpdatePoint(idx, val)
    \/ \E p \in Ranges : SumQuery(p[1], p[2])

SpecSum == InitSum /\ [][NextSum]_vars

\* SegmentTree::min_from_array(A) or max_from_array(A), then calls with
\* in-range arguments.
InitSeg ==
    /\ \E n \in 1..MaxN : \E arr \in Arrays(n) :
           /\ seg \in {min_from_array(arr), max_from_array(arr)}
           /\ ref = arr
    /\ NoSum /\ NoFen /\ NoRuf /\ NoUF /\ Start

NextSeg ==
    \/ \E idx \in Idx : \E val \in Vals : SegUpdatePoint(idx, val)
    \/ \E p \in Ranges : SegQuery(p[1], p[2])

SpecSeg == InitSeg /\ [][NextSeg]_vars

\* The elements of a SegmentTree over an operation that is associative, has
\* a two-sided identity and is not commutative: the words of at most one
\* letter under concatenation, the empty word being the identity.
Words == {<<>>} \cup {<<c>> : c \in 1..MaxLetter}

\* SegmentTree::from_array(A, identity, op) with op the concatenation, then
\* calls with in-range arguments.
InitFold ==
    /\ \E n \in 1..MaxN : \E arr \in [0..(n - 1) -> Words] :
           seg = seg_from_array(arr, <<>>, "concat") /\ ref = arr
    /\ NoSum /\ NoFen /\ NoRuf /\ NoUF /\ Start

NextFold ==
    \/ \E idx \in Idx : \E val \in Words : SegUpdatePoint(idx, val)
    \/ \E p \in Ranges : SegQuery(p[1], p[2])

SpecFold == InitFold /\ [][NextFold]_vars

\* FenwickTree::new(n) or from_array(A), then calls with in-range arguments.
InitFen ==
    /\ \E n \in 1..MaxN :
           \/ fen = FenwickTreeNew(n) /\ ref = Vec(n, 0)
           \/ \E arr \in Arrays(n) : fen = fen_from_array(arr) /\ ref = arr
    /\ NoSum /\ NoSeg /\ NoRuf /\ NoUF /\ Start

NextFen ==
    \/ \E idx \in Idx : \E delta \in Deltas : FenUpdate(idx, delta)
    \/ \E idx \in Idx : FenPrefixSum(idx)
    \/ \E p \in Ranges : FenRangeSum(p[1], p[2])

SpecFen == InitFen /\ [][NextFen]_vars

\* FenwickTree::new(n) or from_array(A), then update, set and the queries
\* with in-range arguments.
NextFenSet ==
    \/ \E idx \in Idx : \E delta \in Deltas : FenUpdate(idx, delta)
    \/ \E idx \in Idx : \E val \in Vals : FenSet(idx, val)
    \/ \E idx \in Idx : FenPrefixSum(idx)
    \/ \E p \in Ranges : FenRangeSum(p[1], p[2])

SpecFenSet == InitFen /\ [][NextFenSet]_vars

\* RangeUpdateFenwickTree::from_array(A), then update_range(l, r, delta)
\* with l <= r and l < N (r may lie past the end) and query(i) with i < N.
InitRuf ==
    /\ \E n \in 1..MaxN : \E arr \in Arrays(n) :
           ruf = ruf_from_array(arr) /\ ref = arr
    /\ NoSum /\ NoSeg /\ NoFen /\ NoUF /\ Start

NextRuf ==
    \/ \E l \in Idx : \E r \in l..(VecLen(ref) + 1) : \E delta \in Deltas :
           RufUpdateRange(l, r, delta)
    \/ \E idx \in Idx : RufQuery(idx)

SpecRuf == InitRuf /\ [][NextRuf]_vars

\* UnionFind::new(n), then calls with in-range elements.
InitUF ==
    /\ \E n \in 1..MaxElems : uf = UnionFindNew(n)
    /\ cpuf = CpUnionFindNew(0)
    /\ ref = <<>>
    /\ NoSum /\ NoSeg /\ NoFen /\ NoRuf /\ Start

NextUF ==
    \/ \E x, y \in Elems : Union(x, y)
    \/ \E x \in Elems : Find(x)
    \/ \E x, y \in Elems : Connected(x, y)
    \/ \E x \in Elems : ComponentSize(x)
    \/ ComponentCount
    \/ GetComponents
    \/ GetRepresentatives
    \/ MaxComponentSize
    \/ IsFullyConnected
    \/ Reset

SpecUF == InitUF /\ [][NextUF]_vars

\* The lists of at most MaxListLen in-range elements.
Lists == UNION {[1..k -> Elems] : k \in 0..MaxListLen}

\* UnionFind::new(n), then union_all on lists of in-range elements, and find.
NextUFAll ==
    \/ \E elements \in Lists : UnionAll(elements)
    \/ \E x \in Elems : Find(x)

SpecUFAll == InitUF /\ [][NextUFAll]_vars

\* Graph::new(n) or Graph::new_directed(n), then weighted edges between its
\* vertices, with weights that are not negative, and dijkstra from any vertex.
Vertices == 0..(graph.n - 1)

InitGraph ==
    /\ \E n \in 1..MaxVertices : \E directed \in BOOLEAN :
           graph = GraphNew(n, directed)
    /\ ref = <<>>
    /\ merged = 0 /\ last = Call("new", <<>>, 0) /\ panicked = FALSE
    /\ NoSum /\ NoSeg /\ NoFen /\ NoRuf /\ NoUF

NextGraph ==
    \/ \E u, v \in Vertices : \E weight \in 0..MaxWeight :
           AddWeightedEdge(u, v, weight)
    \/ \E start \in Vertices : Dijkstra(start)

SpecGraph == InitGraph /\ [][NextGraph]_vars

\* new(n) on both UnionFinds, then the same union and find calls on both.
InitPair ==
    /\ \E n \in 1..MaxPairElems : uf = UnionFindNew(n) /\ cpuf = CpUnionFindNew(n)
    /\ ref = <<>>
    /\ NoSum /\ NoSeg /\ NoFen /\ NoRuf /\ Start

NextPair ==
    \/ \E x, y \in Elems : PairUnion(x, y)
    \/ \E x \in Elems : PairFind(x)

SpecPair == InitPair /\ [][NextPair]_vars

\* Any of the five structures built with any size from 0 to MaxN, then
\* calls with any index arguments, in range or not.  One structure is built
\* and the calls go to it; a panic ends the run.
AnyIdx == 0..(MaxN + 1)

InitAny ==
    /\ Start
    /\ cpuf = CpUnionFindNew(0)
    /\ \E n \in 0..MaxN :
           \/ /\ \E arr \in [0..(n - 1) -> SumVals] :
                     sst = sum_from_array(arr) /\ ref = arr
              /\ NoSeg /\ NoFen /\ NoRuf /\ uf = UnionFindNew(0)
           \/ /\ \E arr \in Arrays(n) :
                     /\ seg \in {min_from_array(arr), max_from_array(arr)}
                     /\ ref = arr
              /\ NoSum /\ NoFen /\ NoRuf /\ uf = UnionFindNew(0)
           \/ /\ \E arr \in Arrays(n) : fen = fen_from_array(arr) /\ ref = arr
              /\ NoSum /\ NoSeg /\ NoRuf /\ uf = UnionFindNew(0)
           \/ /\ \E arr \in Arrays(n) : ruf = ruf_from_array(arr) /\ ref = arr
              /\ NoSum /\ NoSeg /\ NoFen /\ uf = UnionFindNew(0)
           \/ /\ uf = UnionFindNew(n) /\ ref = <<>>
              /\ NoSum /\ NoSeg /\ NoFen /\ NoRuf

\* The structure of size n is the one that was built (all are, when every
\* structure is empty).
Built(n) ==
    \/ n > 0
    \/ /\ sst.original_size = 0 /\ seg.original_size = 0
       /\ fen.n = 0 /\ ruf.tree.n = 0 /\ VecLen(uf.parent) = 0

NextAny ==
    \/ /\ Built(sst.original_size)
       /\ \/ \E l, r \in AnyIdx : \E val \in SumDeltas : SumUpdateRange(l, r, val)
          \/ \E idx \in AnyIdx : \E val \in SumVals : SumUpdatePoint(idx, val)
          \/ \E l, r \in AnyIdx : SumQuery(l, r)
    \/ /\ Built(seg.original_size)
       /\ \/ \E idx \in AnyIdx : \E val \in Vals : SegUpdatePoint(idx, val)
          \/ \E l, r \in AnyIdx : SegQuery(l, r)
    \/ /\ Built(fen.n)
       /\ \/ \E idx \in AnyIdx : \E delta \in Deltas : FenUpdate(idx, delta)
          \/ \E idx \in AnyIdx : \E val \in Vals : FenSet(idx, val)
          \/ \E idx \in AnyIdx : FenPrefixSum(idx)
          \/ \E l, r \in AnyIdx : FenRangeSum(l, r)
    \/ /\ Built(ruf.tree.n)
       /\ \/ \E l \in AnyIdx : \E r \in l..(MaxN + 1) : \E delta \in Deltas :
                 RufUpdateRange(l, r, delta)
          \/ \E idx \in AnyIdx : RufQuery(idx)
    \/ /\ Built(VecLen(uf.parent))
       /\ \/ \E x, y \in AnyIdx : Union(x, y)
          \/ \E x \in AnyIdx : Find(x)
          \/ \E x, y \in AnyIdx : Connected(x, y)
          \/ \E x \in AnyIdx : ComponentSize(x)
          \/ ComponentCount
          \/ GetComponents
          \/ GetRepresentatives
          \/ MaxComponentSize
          \/ Reset

SpecAny == InitAny /\ [][NextAny]_vars

\* Either segment tree built from an array of any size from 0 up, then calls
\* with any index arguments, in range or not.
InitSegAny ==
    /\ Start /\ NoFen /\ NoRuf /\ NoUF
    /\ \/ /\ \E n \in 0..MaxSumN : \E arr \in [0..(n - 1) -> SumVals] :
                 sst = sum_from_array(arr) /\ ref = arr
          /\ NoSeg
       \/ /\ \E n \in 0..MaxN : \E arr \in Arrays(n) :
                 /\ seg \in {min_from_array(arr), max_from_array(arr)}
                 /\ ref = arr
          /\ NoSum

NextSegAny ==
    \/ /\ Built(sst.original_size)
       /\ \/ \E l, r \in AnyIdx : \E val \in SumDeltas : SumUpdateRange(l, r, val)
          \/ \E idx \in AnyIdx : \E val \in SumVals : SumUpdatePoint(idx, val)
          \/ \E l, r \in AnyIdx : SumQuery(l, r)
    \/ /\ Built(seg.original_size)
       /\ \/ \E idx \in AnyIdx : \E val \in Vals : SegUpdatePoint(idx, val)
          \/ \E l, r \in AnyIdx : SegQuery(l, r)

SpecSegAny == InitSegAny /\ [][NextSegAny]_vars

\* The array of the documented scenarios, vec![1, 3, 5, 7, 9, 11].
ScenarioA == (0 :> 1) @@ (1 :> 3) @@ (2 :> 5) @@ (3 :> 7) @@ (4 :> 9) @@ (5 :> 11)

\* No element has been raised more than MaxAdds times by delta.
WithinAdds(a, delta) == \A i \in DOMAIN a : a[i] <= ScenarioA[i] + MaxAdds * delta

\* SumSegmentTree::update_range(l, r, val) in a scenario.
ScenarioUpdateRange(l, r, val) ==
    /\ ~panicked
    /\ WithinAdds(RefAdd(ref, l, r, val), val)
    /\ sst' = sum_update_range(sst, l, r, val)
    /\ ref' = RefAdd(ref, l, r, val)
    /\ last' = Call("update_range", <<>>, 0)
    /\ UNCHANGED <<seg, fen, ruf, uf, cpuf, merged, panicked, graph>>

\* FenwickTree::update(idx, delta) in a scenario.
ScenarioUpdate(idx, delta) ==
    /\ ~panicked
    /\ WithinAdds(RefAdd(ref, idx, idx, delta), delta)
    /\ fen' = fen_update(fen, idx, delta)
    /\ ref' = RefAdd(ref, idx, idx, delta)
    /\ last' = Call("update", <<idx, delta>>, 0)
    /\ UNCHANGED <<sst, seg, ruf, uf, cpuf, merged, panicked, graph>>

\* from_array(&[1, 3, 5, 7, 9, 11]) on the SumSegmentTree or the FenwickTree,
\* then range adds of 10 on the former, point adds of 2 on the latter, and
\* queries.
InitScenario ==
    /\ Start /\ NoSeg /\ NoRuf /\ NoUF
    /\ ref = ScenarioA
    /\ \/ sst = sum_from_array(ScenarioA) /\ NoFen
       \/ fen = fen_from_array(ScenarioA) /\ NoSum

NextScenario ==
    \/ /\ sst.original_size > 0
       /\ \/ \E p \in Ranges : ScenarioUpdateRange(p[1], p[2], 10)
          \/ \E p \in Ranges : SumQuery(p[1], p[2])
    \/ /\ fen.n > 0
       /\ \/ \E idx \in Idx : ScenarioUpdate(idx, 2)
          \/ \E idx \in Idx : FenPrefixSum(idx)
          \/ \E p \in Ranges : FenRangeSum(p[1], p[2])

SpecScenario == InitScenario /\ [][NextScenario]_vars

\* ================================================================= claims

\* The root of x's parent chain, read without compressing anything.
RECURSIVE Root(_, _)
Root(parent, x) == IF parent[x] = x THEN x ELSE Root(parent, parent[x])

\* x and y are in the same component of u.
SameComponent(u, x, y) == Root(u.parent, x) = Root(u.parent, y)

\* The elements of x's component.
ComponentOf(u, x) == {y \in DOMAIN u.parent : SameComponent(u, x, y)}

Roots(u) == {r \in DOMAIN u.parent : u.parent[r] = r}

RECURSIVE SetSum(_, _)
SetSum(f, S) ==
    IF S = {} THEN 0
    ELSE LET e == CHOOSE e \in S : TRUE IN f[e] + SetSum(f, S \ {e})

QueryOps ==
    {"find", "connected", "component_size", "component_count", "get_components",
     "get_representatives", "max_component_size", "is_fully_connected"}

\* C4: after UnionFind::new(n) and any sequence of union calls,
\* component_count() is n minus the number of union calls that returned true
\* (so a call returning true lowers it by exactly one and a call returning
\* false leaves it unchanged).
C4_ComponentCount == component_count(uf) = VecLen(uf.parent) - merged

\* Both kinds of call have happened: two unions merged, the last one did not.
C4_Witness ==
    /\ last.op = "union"
    /\ last.result = FALSE
    /\ merged >= 2
    /\ component_count(uf) = VecLen(uf.parent) - 2

\* C5: a union of two elements that are already connected (x = y included)
\* returns false and leaves component_count unchanged; union returns true
\* exactly when the two elements were in different components before the call.
C5_UnionIdempotent ==
    [][last'.op = "union" =>
         LET x == last'.args[1]
             y == last'.args[2]
         IN  /\ last'.result = ~SameComponent(uf, x, y)
             /\ SameComponent(uf, x, y) =>
                    /\ last'.result = FALSE
                    /\ component_count(uf') = component_count(uf)]_vars

\* A union of two distinct, already connected elements has returned false.
C5_Witness ==
    /\ last.op = "union"
    /\ last.args[1] # last.args[2]
    /\ last.result = FALSE
    /\ merged >= 1

\* C6: component_size(x) is the number of elements connected to x; the size
\* entry of every root is the number of elements whose find returns that
\* root, and the root sizes sum to n.
C6_ComponentSizes ==
    /\ \A x \in Elems :
           component_size(uf, x).result =
               Cardinality({y \in Elems : connected(uf, x, y).result})
    /\ \A r \in Roots(uf) :
           uf.size[r] = Cardinality({e \in Elems : find(uf, e).root = r})
    /\ SetSum(uf.size, Roots(uf)) = VecLen(uf.parent)

\* A component of four elements in which some element is two links from
\* the root, so that component_size has a path to compress.
C6_Witness ==
    \E r \in Roots(uf) : \E e \in Elems :
        /\ uf.size[r] = 4
        /\ Root(uf.parent, e) = r
        /\ uf.parent[e] # r
        /\ component_size(uf, e).result = 4

\* C8 as stated: in every successful union the root of the component with
\* more elements becomes the root of the merged component, and the surviving
\* root's size becomes the sum of the two component sizes.  Stated of the
\* rank-based UnionFind of data_structures/mod.rs.
C8_HeavierRootSurvives ==
    [][(last'.op = "union" /\ last'.result = TRUE) =>
         LET rx == Root(uf.parent, last'.args[1])
             ry == Root(uf.parent, last'.args[2])
             survivor == Root(uf'.parent, last'.args[1])
         IN  /\ uf.size[rx] > uf.size[ry] => survivor = rx
             /\ uf.size[ry] > uf.size[rx] => survivor = ry
             /\ uf'.size[survivor] = uf.size[rx] + uf.size[ry]]_vars

\* C8, amended: in every successful union the surviving root's size becomes
\* the sum of the two component sizes.  In cp.rs union is by size: the root
\* of the strictly larger component survives, the root of x on a tie.  In
\* data_structures/mod.rs union is by rank: the root of strictly higher rank
\* survives, the root of x on a tie, whose rank then grows by one.
C8_UnionByRankOrSize ==
    [][(last'.op = "union" /\ last'.result = TRUE) =>
         LET x == last'.args[1]
             y == last'.args[2]
             rx == Root(uf.parent, x)
             ry == Root(uf.parent, y)
             survivor == Root(uf'.parent, x)
             cx == Root(cpuf.parent, x)
             cy == Root(cpuf.parent, y)
             cp_survivor == Root(cpuf'.parent, x)
         IN  /\ survivor = Root(uf'.parent, y)
             /\ survivor = IF uf.rank[rx] < uf.rank[ry] THEN ry ELSE rx
             /\ uf'.rank[survivor] =
                    IF uf.rank[rx] = uf.rank[ry] THEN uf.rank[rx] + 1
                    ELSE uf.rank[survivor]
             /\ uf'.size[survivor] = uf.size[rx] + uf.size[ry]
             /\ last'.cp_result = TRUE
             /\ cp_survivor = Root(cpuf'.parent, y)
             /\ cp_survivor = IF cpuf.size[cx] < cpuf.size[cy] THEN cy ELSE cx
             /\ cpuf.size[cx] > cpuf.size[cy] => cp_survivor = cx
             /\ cpuf.size[cy] > cpuf.size[cx] => cp_survivor = cy
             /\ cpuf'.size[cp_survivor] = cpuf.size[cx] + cpuf.size[cy]]_vars

\* A successful union after which the two structures disagree on the root:
\* the ranks and the sizes of the two roots ordered them differently.
C8_Witness ==
    /\ last.op = "union"
    /\ last.result = TRUE
    /\ Root(uf.parent, last.args[1]) # Root(cpuf.parent, last.args[1])
    /\ uf.size[Root(uf.parent, last.args[1])] >= 5

\* C9: once two elements are connected they stay connected until reset is
\* called; union merges the components of its two arguments and nothing
\* else; find, connected, component_size, component_count, get_components,
\* get_representatives and max_component_size leave the partition as it was.
C9_MonotonicPartition ==
    [][/\ last'.op # "reset" =>
              \A a, b \in Elems : SameComponent(uf, a, b) => SameComponent(uf', a, b)
       /\ last'.op \in QueryOps =>
              \A a, b \in Elems : SameComponent(uf', a, b) = SameComponent(uf, a, b)
       /\ last'.op = "union" =>
              LET x == last'.args[1]
                  y == last'.args[2]
              IN  \A a, b \in Elems :
                      SameComponent(uf', a, b) =
                          \/ SameComponent(uf, a, b)
                          \/ SameComponent(uf, a, x) /\ SameComponent(uf, b, y)
                          \/ SameComponent(uf, a, y) /\ SameComponent(uf, b, x)
      ]_vars

\* A query has just compressed a path in a structure that has merged
\* components: an element two links from its root before now points at it.
C9_Witness ==
    /\ last.op = "find"
    /\ merged >= 3
    /\ uf.rank[last.result] = 2
    /\ uf.parent[last.args[1]] = last.result
    /\ \A e \in Elems : uf.parent[uf.parent[e]] = uf.parent[e]

RECURSIVE RefSum(_, _, _)
\* The sum of the reference elements lo..hi.
RefSum(a, lo, hi) == IF lo > hi THEN 0 ELSE a[lo] + RefSum(a, lo + 1, hi)

\* The least and the greatest of the reference elements lo..hi.
RefMin(a, lo, hi) == CHOOSE m \in {a[i] : i \in lo..hi} : \A i \in lo..hi : m <= a[i]
RefMax(a, lo, hi) == CHOOSE m \in {a[i] : i \in lo..hi} : \A i \in lo..hi : m >= a[i]

\* C1: after from_array(A) and any sequence of in-range update_range and
\* update_point calls (and of queries, which push deltas down), query(lo, hi)
\* returns the sum of the reference array over [lo, hi], for every
\* lo <= hi < N, whichever nodes still hold pending deltas.
C1_SumMatchesReference ==
    \A p \in Ranges : sum_query(sst, p[1], p[2]).result = RefSum(ref, p[1], p[2])

\* A tree over three elements after a query, with deltas still pending at
\* the leaves of elements 0 and 1: their stored values do not add up to the
\* reference sum that query(0, 1) returns.
C1_Witness ==
    /\ sst.original_size = 3
    /\ last.op = "query"
    /\ sst.lazy[4] # 0
    /\ sst.tree[4] + sst.tree[5] # RefSum(ref, 0, 1)
    /\ sum_query(sst, 0, 1).result = RefSum(ref, 0, 1)

\* C2: for a FenwickTree built by new or from_array and any sequence of
\* update(i, delta) calls with i < N, negative deltas included, prefix_sum(i)
\* is the sum of the reference elements 0..=i and range_sum(l, r) the sum of
\* the reference elements l..=r, for all l <= r < N.
C2_FenwickMatchesReference ==
    /\ ~panicked
    /\ \A i \in Idx : prefix_sum(fen, i) = [result |-> RefSum(ref, 0, i), panic |-> FALSE]
    /\ \A p \in Ranges :
           range_sum(fen, p[1], p[2]) =
               [result |-> RefSum(ref, p[1], p[2]), panic |-> FALSE]
    /\ last.op = "prefix_sum" => last.result = RefSum(ref, 0, last.args[1])
    /\ last.op = "range_sum" => last.result = RefSum(ref, last.args[1], last.args[2])

\* range_sum(1, 2) has returned a negative sum on a tree of three elements
\* whose first element is positive.
C2_Witness ==
    /\ fen.n = 3
    /\ last.op = "range_sum"
    /\ last.args = <<1, 2>>
    /\ last.result < 0
    /\ ref[0] > 0

\* C3: for a SegmentTree built by min_from_array(A) (max_from_array(A)) and
\* any sequence of update_point(i, v) with i < N, query(lo, hi) returns the
\* minimum (maximum) of the reference array over [lo, hi] for every
\* lo <= hi < N; so the full-range query of a fresh tree returns min(A)
\* (max(A)).
C3_MinMaxMatchesReference ==
    /\ \A p \in Ranges :
           seg_query(seg, p[1], p[2]) =
               IF seg.op = "min" THEN RefMin(ref, p[1], p[2])
               ELSE RefMax(ref, p[1], p[2])
    /\ last.op = "query" =>
           last.result = IF seg.op = "min" THEN RefMin(ref, last.args[1], last.args[2])
                         ELSE RefMax(ref, last.args[1], last.args[2])

\* A max tree over three elements, updated since it was built, whose query
\* over [1, 2] has returned less than the maximum of the whole array.
C3_Witness ==
    /\ seg.op = "max"
    /\ seg.original_size = 3
    /\ last.op = "query"
    /\ last.args = <<1, 2>>
    /\ last.result < seg_query(seg, 0, 2)
    /\ seg # max_from_array(Vec(3, ref[0]))

\* C7: for a RangeUpdateFenwickTree built from A and any sequence of
\* update_range(l, r, delta) with l <= r and l < N, query(i) is A[i] plus the
\* deltas of the calls with l <= i <= r, for every i < N; with r + 1 >= N the
\* closing update is omitted, so the add reaches every index of [l, N-1], and
\* the storage keeps its N + 1 slots, slot 0 unused.
C7_RangeAddPointQuery ==
    /\ ~panicked
    /\ \A i \in Idx : ruf_query(ruf, i) = [result |-> ref[i], panic |-> FALSE]
    /\ last.op = "query" => last.result = ref[last.args[1]]
    /\ DOMAIN ruf.tree.tree = 0..VecLen(ref)
    /\ ruf.tree.tree[0] = 0
    /\ ruf.tree.n = VecLen(ref)

\* An update_range whose r lies past the end has been applied from l >= 1,
\* and the elements differ.
C7_Witness ==
    /\ last.op = "update_range"
    /\ last.args[1] >= 1
    /\ last.args[2] >= VecLen(ref)
    /\ ref[0] # ref[VecLen(ref) - 1]
    /\ ruf_query(ruf, VecLen(ref) - 1).result = ref[VecLen(ref) - 1]

\* C10: no public operation of the five structures, called with any index
\* argument, ever indexes a slot outside its backing arrays: a call with an
\* index out of range is reported to the caller or is a safe no-op or
\* identity result.  (A call that indexes outside a Vec panics.)
C10_NoOutOfRangeAccess == ~panicked

\* Every structure is of size 0.
AllEmpty ==
    /\ sst.original_size = 0 /\ seg.original_size = 0
    /\ fen.n = 0 /\ ruf.tree.n = 0 /\ VecLen(uf.parent) = 0

\* C11: for structures constructed with size 0, no call faults, every query
\* (segment-tree query, Fenwick prefix_sum and range_sum, range-update
\* Fenwick query, UnionFind component_count, get_components and
\* max_component_size) returns the identity or zero, and every structure
\* stays as it was constructed.
C11_EmptyStructuresInert ==
    AllEmpty =>
        /\ ~panicked
        /\ \A l, r \in AnyIdx :
               /\ sum_query(sst, l, r).result = 0
               /\ seg_query(seg, l, r) = seg.identity
               /\ ~prefix_sum(fen, l).panic /\ prefix_sum(fen, l).result = 0
               /\ ~range_sum(fen, l, r).panic /\ range_sum(fen, l, r).result = 0
               /\ ~ruf_query(ruf, l).panic /\ ruf_query(ruf, l).result = 0
        /\ component_count(uf) = 0
        /\ get_components(uf).result = {}
        /\ max_component_size(uf).result = 0
        /\ sst = SumSegmentTreeNew(0)
        /\ seg = SegmentTreeNew(0, seg.identity, seg.op)
        /\ fen = FenwickTreeNew(0)
        /\ ruf = RangeUpdateFenwickTreeNew(0)
        /\ uf = UnionFindNew(0)

\* A range a segment tree of the given size treats as degenerate.
Degenerate(size, l, r) == l >= size \/ r >= size \/ l > r

\* The ranges lo <= hi of a tree of the given size.
RangesOf(size) == {p \in (0..(size - 1)) \X (0..(size - 1)) : p[1] <= p[2]}

\* Every in-range query returns the same sum on t1 and t2.
SameSums(t1, t2) ==
    \/ t1 = t2
    \/ \A p \in RangesOf(t2.original_size) :
           sum_query(t1, p[1], p[2]).result = sum_query(t2, p[1], p[2]).result

\* C12: on both segment trees a query(lo, hi) with lo >= size, hi >= size or
\* lo > hi returns the identity (0 on the SumSegmentTree) without fault, and
\* no later query result is changed by it.
C12_DegenerateQueryIdentity ==
    \A l, r \in AnyIdx :
        /\ Degenerate(seg.original_size, l, r) =>
               seg_query(seg, l, r) = seg.identity
        /\ Degenerate(sst.original_size, l, r) =>
               LET q == sum_query(sst, l, r)
               IN  q.result = 0 /\ SameSums(q.t, sst)

\* A query has run on a SumSegmentTree of three elements, and an in-bounds
\* query with lo > hi would push a pending delta.
C12_Witness ==
    /\ sst.original_size = 3
    /\ last.op = "query"
    /\ \E l, r \in Idx : l > r /\ sum_query(sst, l, r).t # sst

\* Every in-range query returns the same value on t1 and t2.
SameFolds(t1, t2) ==
    \/ t1 = t2
    \/ \A p \in RangesOf(t2.original_size) :
           seg_query(t1, p[1], p[2]) = seg_query(t2, p[1], p[2])

\* C14: update_point(i, v) with i >= size on either segment tree, and
\* SumSegmentTree::update_range(lo, hi, d) with lo >= size, hi >= size or
\* lo > hi, never fault and leave the result of every later query unchanged.
C14_InvalidMutationsAreNoOps ==
    \A i, j \in AnyIdx :
        /\ i >= seg.original_size =>
               \A v \in Vals : SameFolds(seg_update_point(seg, i, v), seg)
        /\ i >= sst.original_size =>
               \A v \in SumVals : SameSums(sum_update_point(sst, i, v), sst)
        /\ Degenerate(sst.original_size, i, j) =>
               \A d \in SumDeltas : SameSums(sum_update_range(sst, i, j, d), sst)

\* An update_range has run on a SumSegmentTree of three elements, and an
\* in-bounds update_range with lo > hi would push a pending delta.
C14_Witness ==
    /\ sst.original_size = 3
    /\ last.op = "update_range"
    /\ \E i, j \in Idx : \E d \in SumDeltas :
           i > j /\ sum_update_range(sst, i, j, d) # sst

\* C13: FenwickTree::range_sum(l, r) with l > r, both below the size of the
\* tree, is an empty range and returns 0.
C13_ReversedRangeSumIsZero ==
    (/\ last.op = "range_sum"
     /\ last.args[1] > last.args[2]
     /\ last.args[1] < fen.n) => (~panicked /\ last.result = 0)

\* C15 as stated: for the SumSegmentTree built from [1, 3, 5, 7, 9, 11],
\* query(0, 2) is 9, and after update_range(1, 3, 10) query(0, 4) is 45.
C15_Scenario1 ==
    sst.original_size = 6 =>
        /\ ref = ScenarioA => sum_query(sst, 0, 2).result = 9
        /\ ref = RefAdd(ScenarioA, 1, 3, 10) => sum_query(sst, 0, 4).result = 45

\* C15, amended: query(0, 2) is 9, and after update_range(1, 3, 10)
\* query(0, 4) is 1 + 13 + 15 + 17 + 9 = 55.
C15_Scenario1Sums ==
    sst.original_size = 6 =>
        /\ ref = ScenarioA => sum_query(sst, 0, 2).result = 9
        /\ ref = RefAdd(ScenarioA, 1, 3, 10) => sum_query(sst, 0, 4).result = 55

\* update_range(1, 3, 10) was the last call on the tree built from the array.
C15_Witness ==
    /\ sst.original_size = 6
    /\ ref = RefAdd(ScenarioA, 1, 3, 10)
    /\ last.op = "update_range"

\* C16 as stated: for FenwickTree::from_array([1, 3, 5, 7, 9, 11]),
\* range_sum(1, 3) is 15, and after update(1, 2) prefix_sum(2) is 17.
C16_Scenario2 ==
    fen.n = 6 =>
        /\ ref = ScenarioA => range_sum(fen, 1, 3).result = 15
        /\ ref = RefAdd(ScenarioA, 1, 1, 2) => prefix_sum(fen, 2).result = 17

\* C16, amended: range_sum(1, 3) is 15, and after update(1, 2) prefix_sum(2)
\* is 1 + 5 + 5 = 11.
C16_Scenario2Sums ==
    fen.n = 6 =>
        /\ ref = ScenarioA => range_sum(fen, 1, 3).result = 15
        /\ ref = RefAdd(ScenarioA, 1, 1, 2) => prefix_sum(fen, 2).result = 11

\* prefix_sum(2) was called after update(1, 2) on the tree built from the
\* array.
C16_Witness ==
    /\ fen.n = 6
    /\ ref = RefAdd(ScenarioA, 1, 1, 2)
    /\ last.op = "prefix_sum" /\ last.args = <<2>>

\* C17: SumSegmentTree::update_point(i, v) with i < N sets the element: in
\* any state reached by update_range calls, deltas still pending or not,
\* it makes query(i, i) return v and leaves query(j, j) as it was for every
\* other j.
C17_UpdatePointSets ==
    \A i \in Idx : \A v \in SumVals :
        LET t == sum_update_point(sst, i, v)
        IN  /\ sum_query(t, i, i).result = v
            /\ \A j \in Idx \ {i} :
                   sum_query(t, j, j).result = sum_query(sst, j, j).result

\* After an update_range a delta is pending at the parent of the leaves 0
\* and 1 of a tree of three elements, and element 0 is not 0.
C17_Witness ==
    /\ sst.original_size = 3
    /\ last.op = "update_range"
    /\ sst.lazy[2] # 0
    /\ ref[0] # 0

\* C18: FenwickTree::set(i, v) with i < N, in any state reached by update
\* and set calls, makes range_sum(i, i) return v and leaves range_sum(j, j)
\* as it was for every other j: every prefix sum from i on changes by v
\* minus the old element, and no prefix sum below i changes.
C18_SetStoresValue ==
    [][last'.op = "set" =>
           LET i == last'.args[1]
               v == last'.args[2]
           IN  /\ ~panicked'
               /\ range_sum(fen', i, i).result = v
               /\ \A j \in Idx \ {i} :
                      range_sum(fen', j, j).result = range_sum(fen, j, j).result
               /\ \A k \in Idx :
                      prefix_sum(fen', k).result - prefix_sum(fen, k).result
                          = IF k >= i THEN v - ref[i] ELSE 0]_vars

\* set(1, v) with v not 0 was the last call on a tree of three elements.
C18_Witness ==
    /\ fen.n = 3
    /\ last.op = "set"
    /\ last.args[1] = 1 /\ last.args[2] # 0
    /\ range_sum(fen, 1, 1).result = last.args[2]

\* C19: UnionFind::reset, called in any reachable state, restores the
\* singleton state of the same n: afterwards component_count() is n,
\* component_size(i) is 1 for every i, connected(x, y) is false for every
\* x # y, and all ranks are 0, exactly as after new(n).
C19_ResetRestoresSingletons ==
    LET n == VecLen(uf.parent)
        r == reset(uf)
    IN  /\ r = UnionFindNew(n)
        /\ component_count(r) = n
        /\ \A i \in Elems : component_size(r, i).result = 1
        /\ \A x, y \in Elems : x # y => ~connected(r, x, y).result
        /\ \A i \in Elems : r.rank[i] = 0

\* Unions have built a component of three elements with a root of rank 2
\* among four elements, which reset undoes.
C19_Witness ==
    /\ VecLen(uf.parent) = 4
    /\ \E x \in Elems : uf.rank[x] = 2 /\ uf.size[x] >= 3
    /\ reset(uf) # uf

\* The elements of a group vector.
Members(s) == {s[k] : k \in 1..Len(s)}

\* C20: in every reachable UnionFind state get_components() returns a
\* partition of 0..n-1 in which two elements share a group exactly when they
\* are connected, the number of groups is component_count(), and
\* get_representatives() returns component_count() distinct elements r, each
\* with parent[r] = r.
C20_ComponentsPartition ==
    LET g == get_components(uf).result
        reps == get_representatives(uf)
    IN  /\ \A s \in g : Len(s) > 0 /\ Cardinality(Members(s)) = Len(s)
        /\ UNION {Members(s) : s \in g} = Elems
        /\ \A s1, s2 \in g : s1 # s2 => Members(s1) \cap Members(s2) = {}
        /\ \A x, y \in Elems :
               (\E s \in g : x \in Members(s) /\ y \in Members(s))
                   <=> SameComponent(uf, x, y)
        /\ Cardinality(g) = component_count(uf)
        /\ Cardinality(reps.result) = component_count(uf)
        /\ \A r \in reps.result : uf.parent[r] = r /\ reps.uf.parent[r] = r

\* get_components was the last call on four elements and returned a group of
\* three elements beside a singleton.
C20_Witness ==
    /\ VecLen(uf.parent) = 4
    /\ last.op = "get_components"
    /\ Cardinality(last.result) = 2
    /\ \E s \in last.result : Len(s) = 3

\* The components of u that hold an element of the list.
ListedComponents(u, elements) == {Root(u.parent, x) : x \in Members(elements)}

\* C21 as stated: union_all(elements) returns true exactly when a pairwise
\* union merged two components (false for lists shorter than 2 and for
\* lists already connected); afterwards the listed elements are pairwise
\* connected and component_count has dropped by the number of distinct
\* components among the listed elements minus one.
C21_UnionAll ==
    \A elements \in Lists :
        LET r == union_all(uf, elements)
            k == Cardinality(ListedComponents(uf, elements))
        IN  /\ ~r.panic
            /\ r.result <=> component_count(r.uf) < component_count(uf)
            /\ (Len(elements) < 2 \/ k = 1) => ~r.result
            /\ \A x, y \in Members(elements) : SameComponent(r.uf, x, y)
            /\ component_count(uf) - component_count(r.uf) = k - 1

\* C21, amended: as stated for a list that is not empty; on the empty list
\* union_all returns false and component_count does not change.
C21_UnionAllNonEmpty ==
    \A elements \in Lists :
        LET r == union_all(uf, elements)
            k == Cardinality(ListedComponents(uf, elements))
        IN  /\ ~r.panic
            /\ r.result <=> component_count(r.uf) < component_count(uf)
            /\ (Len(elements) < 2 \/ k = 1) => ~r.result
            /\ \A x, y \in Members(elements) : SameComponent(r.uf, x, y)
            /\ component_count(uf) - component_count(r.uf)
                   = IF elements = <<>> THEN 0 ELSE k - 1

\* union_all returned true on four elements and left a component of three
\* elements.
C21_Witness ==
    /\ VecLen(uf.parent) = 4
    /\ last.op = "union_all" /\ last.result = TRUE
    /\ \E x \in Elems : Cardinality(ComponentOf(uf, x)) = 3

\* a[l] op a[l+1] op ... op a[r], folded from the left, op the concatenation.
RECURSIVE RefFold(_, _, _)
RefFold(a, l, r) == IF l > r THEN <<>> ELSE a[l] \o RefFold(a, l + 1, r)

\* C22: the generic SegmentTree does not rely on commutativity: over an
\* associative operation with a two-sided identity, after from_array(A) and
\* any update_point calls, query(lo, hi) is the left-to-right fold of the
\* current array over [lo, hi], for every lo <= hi < N.
C22_OrderedFold ==
    seg.op = "concat" =>
        \A p \in Ranges : seg_query(seg, p[1], p[2]) = RefFold(ref, p[1], p[2])

\* The full query on three elements was answered with a word whose
\* neighbouring letters differ, so the order of the operands shows.
C22_Witness ==
    /\ seg.op = "concat" /\ seg.original_size = 3
    /\ last.op = "query" /\ last.args = <<0, 2>>
    /\ Len(last.result) = 3
    /\ last.result[1] # last.result[2] /\ last.result[2] # last.result[3]

\* The vertices reachable from the vertices of S over weighted edges.
RECURSIVE Reachable(_, _)
Reachable(g, S) ==
    LET T == S \cup {v \in 0..(g.n - 1) :
                        \E u \in S : \E k \in 1..Len(g.weighted_adj[u]) :
                            g.weighted_adj[u][k][1] = v}
    IN  IF T = S THEN S ELSE Reachable(g, T)

\* C23: dijkstra(start) returns an empty vector when the graph has no
\* weighted edge; otherwise it returns one distance per vertex, i64::MAX for
\* the vertices that cannot be reached from start.
C23_DijkstraResult ==
    last.op = "dijkstra" =>
        IF Slots(graph, 0) = 0
        THEN VecLen(last.result) = 0
        ELSE /\ DOMAIN last.result = Vertices
             /\ \A v \in Vertices :
                    v \notin Reachable(graph, {last.args[1]})
                        => last.result[v] = i64_MAX

\* The nodes <<k, s, e>> of the subtree of node k, which covers [s, e].
RECURSIVE NodesOf(_, _, _)
NodesOf(k, s, e) ==
    IF s = e THEN {<<k, s, e>>}
    ELSE LET m == (s + e) \div 2
         IN  {<<k, s, e>>} \cup NodesOf(2 * k, s, m) \cup NodesOf(2 * k + 1, m + 1, e)

\* The deltas pending on the path from node k, which covers [s, e], down to
\* the leaf of element i.
RECURSIVE PathLazy(_, _, _, _, _)
PathLazy(t, k, s, e, i) ==
    IF s = e THEN t.lazy[k]
    ELSE LET m == (s + e) \div 2
         IN  t.lazy[k] + (IF i <= m THEN PathLazy(t, 2 * k, s, m, i)
                          ELSE PathLazy(t, 2 * k + 1, m + 1, e, i))

\* The node of the leaf of element i below node k, which covers [s, e].
RECURSIVE LeafOf(_, _, _, _)
LeafOf(k, s, e, i) ==
    IF s = e THEN k
    ELSE LET m == (s + e) \div 2
         IN  IF i <= m THEN LeafOf(2 * k, s, m, i) ELSE LeafOf(2 * k + 1, m + 1, e, i)

\* C24: after every public operation of the SumSegmentTree, the sum stored
\* at an inner node is the sum of its children's stored sums, each with the
\* child's pending delta times the child's range length; the value of
\* element i is its leaf's stored value plus the deltas pending on the path
\* from the root to the leaf; and push(k) adds lazy[k] times the range length
\* to tree[k], adds lazy[k] to the lazy of both children (of none at a leaf)
\* and sets lazy[k] to 0.
C24_LazyTagConsistency ==
    LET N == sst.original_size IN
    /\ \A n \in NodesOf(1, 0, N - 1) :
           LET k == n[1]
               s == n[2]
               e == n[3]
               m == (s + e) \div 2
               p == push(sst, k, s, e)
           IN  /\ s # e =>
                      sst.tree[k] = (sst.tree[2 * k] + sst.lazy[2 * k] * (m - s + 1))
                                    + (sst.tree[2 * k + 1] + sst.lazy[2 * k + 1] * (e - m))
               /\ p.tree[k] = sst.tree[k] + sst.lazy[k] * (e - s + 1)
               /\ p.lazy[k] = 0
               /\ \A j \in DOMAIN sst.lazy \ {k} :
                      p.lazy[j] = sst.lazy[j]
                                  + (IF s # e /\ j \in {2 * k, 2 * k + 1}
                                     THEN sst.lazy[k] ELSE 0)
               /\ \A j \in DOMAIN sst.tree \ {k} : p.tree[j] = sst.tree[j]
    /\ \A i \in Idx :
           ref[i] = sst.tree[LeafOf(1, 0, N - 1, i)] + PathLazy(sst, 1, 0, N - 1, i)

\* After a query, deltas are pending at both children of the root of a tree
\* of three elements.
C24_Witness ==
    /\ sst.original_size = 3
    /\ last.op = "query"
    /\ sst.lazy[2] # 0 /\ sst.lazy[3] # 0

\* The lowest set bit of i > 0: the greatest power of two that divides i.
RECURSIVE LowBit(_)
LowBit(i) == IF i % 2 = 1 THEN 1 ELSE 2 * LowBit(i \div 2)

\* C25: after any update and set calls with index < N, tree[i] is, for every
\* i in 1..N, the sum of the reference elements at the 0-based positions
\* i - lowbit(i) to i - 1, lowbit(i) = i & (!i + 1) being the lowest set bit
\* of i; tree[0] is never written.
C25_FenwickStorage ==
    /\ fen.tree[0] = 0
    /\ \A i \in 1..fen.n :
           /\ lsb(i) = LowBit(i)
           /\ fen.tree[i] = RefSum(ref, i - LowBit(i), i - 1)

\* set was the last call on a tree of three elements, none of which is 0,
\* and tree[2] covers two of them.
C25_Witness ==
    /\ fen.n = 3
    /\ last.op = "set"
    /\ \A i \in Idx : ref[i] # 0
    /\ fen.tree[2] = ref[0] + ref[1] /\ fen.tree[2] # ref[1]

\* The elements on the parent chain from x to its root, both included.
RECURSIVE Chain(_, _)
Chain(parent, x) ==
    IF parent[x] = x THEN {x} ELSE {x} \cup Chain(parent, parent[x])

\* C26: in every reachable UnionFind state and for every x < n, find(x)
\* returns the root r = parent[r] at the end of x's parent chain; after the
\* call every element of that chain has parent r, and the parent, rank and
\* size entries of the elements off the chain are unchanged.
C26_FindCompressesPath ==
    \A x \in Elems :
        LET f == find(uf, x)
            r == Root(uf.parent, x)
        IN  /\ ~f.panic
            /\ f.root = r
            /\ uf.parent[r] = r /\ f.uf.parent[r] = r
            /\ \A y \in Chain(uf.parent, x) : f.uf.parent[y] = r
            /\ \A y \in Elems \ Chain(uf.parent, x) :
                   /\ f.uf.parent[y] = uf.parent[y]
                   /\ f.uf.rank[y] = uf.rank[y]
                   /\ f.uf.size[y] = uf.size[y]

\* A union has left an element of four two links away from its root, so that
\* find rewrites its parent.
C26_Witness ==
    /\ VecLen(uf.parent) = 4
    /\ last.op = "union"
    /\ \E x \in Elems :
           /\ Cardinality(Chain(uf.parent, x)) = 3
           /\ find(uf, x).uf.parent[x] # uf.parent[x]

\* floor(log2 n) for n >= 1.
RECURSIVE Log2Floor(_)
Log2Floor(n) == IF n <= 1 THEN 0 ELSE 1 + Log2Floor(n \div 2)

\* C27: in every state reached from new(n) by union, find and the queries,
\* rank[x] < rank[parent[x]] for every x that is not a root and
\* 2^rank[r] <= size[r] for every root r, so the parent chain from any
\* element to its root never has more than floor(log2 n) links.
C27_HeightBound ==
    /\ \A x \in Elems \ Roots(uf) : uf.rank[x] < uf.rank[uf.parent[x]]
    /\ \A r \in Roots(uf) : Pow2(uf.rank[r]) <= uf.size[r]
    /\ \A x \in Elems :
           Cardinality(Chain(uf.parent, x)) - 1 <= Log2Floor(VecLen(uf.parent))

\* Four elements under a root of rank 2, one of them two links away from it:
\* both bounds are met with equality.
C27_Witness ==
    /\ VecLen(uf.parent) = 4
    /\ \E r \in Roots(uf) : uf.rank[r] = 2 /\ uf.size[r] = 4
    /\ \E x \in Elems : Cardinality(Chain(uf.parent, x)) = 3

\* C28: SumSegmentTree::query is observationally pure: in any reachable
\* state and for any in-range (a, b) and (c, d), query(c, d) after
\* query(a, b) returns what query(c, d) alone returns, and a repeated query
\* returns the same value.
C28_QueryObservationallyPure ==
    \A p, q \in Ranges :
        LET first == sum_query(sst, p[1], p[2])
        IN  /\ sum_query(first.t, q[1], q[2]).result
                   = sum_query(sst, q[1], q[2]).result
            /\ sum_query(first.t, p[1], p[2]).result = first.result

\* After an update_point on a tree of three elements deltas are pending at
\* the leaves 0 and 1, so that a query rewrites tree and lazy.
C28_Witness ==
    /\ sst.original_size = 3
    /\ last.op = "update_point"
    /\ sst.lazy[4] # 0 /\ sst.lazy[5] # 0
    /\ \E p \in Ranges : sum_query(sst, p[1], p[2]).t # sst

\* C29: the size-based UnionFind of cp.rs and the rank-based UnionFind of
\* data_structures/mod.rs, driven by the same union(x, y) calls with
\* x, y < n, return the same boolean from every union, and after every step
\* report the same component_count() and the same component_size(x) for
\* every x; only the chosen roots may differ.
C29_ObservationallyEquivalent ==
    /\ last.op = "union" => last.result = last.cp_result
    /\ component_count(uf) = cp_component_count(cpuf)
    /\ \A x \in Elems :
           /\ ~component_size(uf, x).panic
           /\ ~cp_component_size(cpuf, x).panic
           /\ component_size(uf, x).result = cp_component_size(cpuf, x).result

\* A successful union has left an element whose two representatives
\* differ, in a component of at least three elements.
C29_Witness ==
    /\ last.op = "union" /\ last.result /\ last.cp_result
    /\ \E x \in Elems :
           /\ find(uf, x).root # cp_find(cpuf, x).root
           /\ component_size(uf, x).result >= 3
           /\ cp_component_size(cpuf, x).result >= 3

\* ------------------------------------------- node indices of the two trees
\* The slots of tree and lazy each helper reads or writes, collected along
\* the helper's own recursion.

\* SumSegmentTree::build: tree[node] at a leaf; below an inner node the two
\* recursive calls, then tree[node], tree[2 * node] and tree[2 * node + 1].
RECURSIVE sum_build_indices(_, _, _)
sum_build_indices(node, start, end) ==
    IF start = end THEN {node}
    ELSE LET mid == (start + end) \div 2
         IN  sum_build_indices(2 * node, start, mid)
                 \cup sum_build_indices(2 * node + 1, mid + 1, end)
                 \cup {node, 2 * node, 2 * node + 1}

\* from_array builds from node 1 when the array is not empty.
sum_from_array_indices(n) ==
    IF n > 0 THEN sum_build_indices(1, 0, n - 1) ELSE {}

\* push reads lazy[node]; with a pending delta it writes tree[node] and
\* lazy[node], and lazy[2 * node], lazy[2 * node + 1] when start != end.
push_indices(t, node, start, end) ==
    IF t.lazy[node] # 0
    THEN IF start # end THEN {node, 2 * node, 2 * node + 1} ELSE {node}
    ELSE {node}

RECURSIVE update_range_helper_indices(_, _, _, _, _, _, _)
update_range_helper_indices(t, node, start, end, l, r, val) ==
    LET t0 == push(t, node, start, end) IN
    push_indices(t, node, start, end) \cup
    (IF start > r \/ end < l THEN {}
     ELSE IF start >= l /\ end <= r
     THEN {node} \cup push_indices([t0 EXCEPT !.lazy[node] = @ + val], node, start, end)
     ELSE LET mid == (start + end) \div 2
              t1 == update_range_helper(t0, 2 * node, start, mid, l, r, val)
              t2 == update_range_helper(t1, 2 * node + 1, mid + 1, end, l, r, val)
              t3 == push(t2, 2 * node, start, mid)
          IN  update_range_helper_indices(t0, 2 * node, start, mid, l, r, val)
                  \cup update_range_helper_indices(t1, 2 * node + 1, mid + 1, end, l, r, val)
                  \cup push_indices(t2, 2 * node, start, mid)
                  \cup push_indices(t3, 2 * node + 1, mid + 1, end)
                  \cup {node, 2 * node, 2 * node + 1})

sum_update_range_indices(t, l, r, val) ==
    IF l < t.original_size /\ r < t.original_size
    THEN update_range_helper_indices(t, 1, 0, t.original_size - 1, l, r, val)
    ELSE {}

RECURSIVE sum_update_point_helper_indices(_, _, _, _, _, _)
sum_update_point_helper_indices(t, node, start, end, idx, val) ==
    LET t0 == push(t, node, start, end) IN
    push_indices(t, node, start, end) \cup
    (IF start = end THEN {node}
     ELSE LET mid == (start + end) \div 2
              t1 == IF idx <= mid
                    THEN sum_update_point_helper(t0, 2 * node, start, mid, idx, val)
                    ELSE sum_update_point_helper(t0, 2 * node + 1, mid + 1, end, idx, val)
              t2 == push(t1, 2 * node, start, mid)
          IN  (IF idx <= mid
               THEN sum_update_point_helper_indices(t0, 2 * node, start, mid, idx, val)
               ELSE sum_update_point_helper_indices(t0, 2 * node + 1, mid + 1, end, idx, val))
                  \cup push_indices(t1, 2 * node, start, mid)
                  \cup push_indices(t2, 2 * node + 1, mid + 1, end)
                  \cup {node, 2 * node, 2 * node + 1})

sum_update_point_indices(t, idx, val) ==
    IF idx < t.original_size
    THEN sum_update_point_helper_indices(t, 1, 0, t.original_size - 1, idx, val)
    ELSE {}

RECURSIVE sum_query_helper_indices(_, _, _, _, _, _)
sum_query_helper_indices(t, node, start, end, l, r) ==
    IF start > r \/ end < l THEN {}
    ELSE LET t0 == push(t, node, start, end) IN
         push_indices(t, node, start, end) \cup
         (IF start >= l /\ end <= r THEN {node}
          ELSE LET mid == (start + end) \div 2
                   left_query == sum_query_helper(t0, 2 * node, start, mid, l, r)
               IN  sum_query_helper_indices(t0, 2 * node, start, mid, l, r)
                       \cup sum_query_helper_indices(left_query.t, 2 * node + 1,
                                                     mid + 1, end, l, r))

\* query starting its descent at node 0, as in a 0-rooted layout.
sum_query_indices_from_zero(t, l, r) ==
    IF l < t.original_size /\ r < t.original_size
    THEN sum_query_helper_indices(t, 0, 0, t.original_size - 1, l, r)
    ELSE {}

sum_query_indices(t, l, r) ==
    IF l < t.original_size /\ r < t.original_size
    THEN sum_query_helper_indices(t, 1, 0, t.original_size - 1, l, r)
    ELSE {}

\* SegmentTree::build, as SumSegmentTree::build with op for the sum.
RECURSIVE seg_build_indices(_, _, _)
seg_build_indices(node, start, end) ==
    IF start = end THEN {node}
    ELSE LET mid == (start + end) \div 2
         IN  seg_build_indices(2 * node, start, mid)
                 \cup seg_build_indices(2 * node + 1, mid + 1, end)
                 \cup {node, 2 * node, 2 * node + 1}

seg_from_array_indices(n) ==
    IF n > 0 THEN seg_build_indices(1, 0, n - 1) ELSE {}

RECURSIVE seg_update_point_helper_indices(_, _, _, _)
seg_update_point_helper_indices(node, start, end, idx) ==
    IF start = end THEN {node}
    ELSE LET mid == (start + end) \div 2
         IN  (IF idx <= mid
              THEN seg_update_point_helper_indices(2 * node, start, mid, idx)
              ELSE seg_update_point_helper_indices(2 * node + 1, mid + 1, end, idx))
                 \cup {node, 2 * node, 2 * node + 1}

seg_update_point_indices(t, idx) ==
    IF idx < t.original_size
    THEN seg_update_point_helper_indices(1, 0, t.original_size - 1, idx)
    ELSE {}

RECURSIVE seg_query_helper_indices(_, _, _, _, _)
seg_query_helper_indices(node, start, end, l, r) ==
    IF start > r \/ end < l THEN {}
    ELSE IF start >= l /\ end <= r THEN {node}
    ELSE LET mid == (start + end) \div 2
         IN  seg_query_helper_indices(2 * node, start, mid, l, r)
                 \cup seg_query_helper_indices(2 * node + 1, mid + 1, end, l, r)

seg_query_indices(t, l, r) ==
    IF l < t.original_size /\ r < t.original_size
    THEN seg_query_helper_indices(1, 0, t.original_size - 1, l, r)
    ELSE {}

\* Every index of S is a slot 1 .. 4 * N - 1 of an array of 4 * N slots.
InBounds(S, N, array) ==
    \A k \in S : k >= 1 /\ k < 4 * N /\ k \in DOMAIN array

\* C30: for every size N >= 1 and every call of build, update_point,
\* update_range or query with in-range arguments on SegmentTree or
\* SumSegmentTree, every node index read or written in tree or lazy, the
\* child slots 2k and 2k+1 touched by push at a non-leaf node included, is
\* at least 1 and less than 4 * N: the arrays of 4 * N slots are never
\* indexed out of bounds.
C30_NodeIndicesInBounds ==
    /\ sst.original_size >= 1 =>
           LET N == sst.original_size
               Ok(S) == InBounds(S, N, sst.tree) /\ InBounds(S, N, sst.lazy)
           IN  /\ Ok(sum_from_array_indices(N))
               /\ \A l, r \in 0..(N - 1) :
                      /\ Ok(sum_query_indices(sst, l, r))
                      /\ \A val \in SumDeltas :
                             Ok(sum_update_range_indices(sst, l, r, val))
               /\ \A idx \in 0..(N - 1) : \A val \in SumVals :
                      Ok(sum_update_point_indices(sst, idx, val))
    /\ seg.original_size >= 1 =>
           LET N == seg.original_size
               Ok(S) == InBounds(S, N, seg.tree)
           IN  /\ Ok(seg_from_array_indices(N))
               /\ \A l, r \in 0..(N - 1) : Ok(seg_query_indices(seg, l, r))
               /\ \A idx \in 0..(N - 1) : Ok(seg_update_point_indices(seg, idx))

\* A tree of three elements holds a delta pending at the inner node 2, so
\* that a query of element 0 pushes it into the child slots 4 and 5, the
\* deepest of the tree.
C30_Witness ==
    /\ sst.original_size = 3
    /\ sst.lazy[2] # 0
    /\ {4, 5} \subseteq sum_query_indices(sst, 0, 0)

====
